---- MODULE Spec2Model ----
(***************************************************************************)
(* pyBingeBuddy: the synchronisation and alerting pipeline.                *)
(*                                                                         *)
(* The relational store is modelled table by table: a table is a sequence  *)
(* of rows and the internal id of a row is its index (rows of shows,       *)
(* seasons and episodes are never deleted by the program).  A Python dict  *)
(* is a TLA+ function whose DOMAIN is the set of keys.  The catalog (TMDB) *)
(* is part of the state; whether a given fetch fails and whether the SMTP  *)
(* server refuses a channel are inputs of each operation.                  *)
(***************************************************************************)
EXTENDS Integers, Sequences, FiniteSets, TLC

----------------------------------------------------------------------------
\* Bounds of the model.
MaxShows == 2        \* catalog ids 1..MaxShows
MaxDate == 2         \* distinct concrete air dates the catalog announces
MaxSeasons == 2      \* seasons per show
MaxEpisodes == 2     \* episodes per season
MaxFailures == 1     \* failing catalog fetches per operation

\* Python None / SQL NULL.
NULL == "NULL"
\* The dict literal upsert_show binds when there is no next episode.
EmptyDict == "{}"
\* What tmdb_tv_details returns on a failed fetch: a dict with no keys.
NoDetails == <<>>

DateNames == <<"2024-03-01", "2024-03-08", "2024-03-15", "2024-03-22", "2024-03-29">>
Dates == {DateNames[i] : i \in 1..MaxDate}
TmdbIds == 1..MaxShows

\* dict.get(k): None when the key is absent.
Get(d, k) == IF k \in DOMAIN d THEN d[k] ELSE NULL
\* Python truthiness of an optional string.
Truthy(x) == x # NULL /\ x # ""
\* Python "a or b" on optional strings.
Or(a, b) == IF Truthy(a) THEN a ELSE b

RECURSIVE SeqOfSet(_)
SeqOfSet(S) == IF S = {} THEN <<>>
               ELSE LET m == CHOOSE x \in S : \A y \in S : x <= y
                    IN <<m>> \o SeqOfSet(S \ {m})

----------------------------------------------------------------------------
VARIABLES
    catalog,       \* the external catalog: per tmdb id, show details and season details
    shows,         \* table shows
    seasons,       \* table seasons
    episodes,      \* table episodes
    users,         \* table users
    user_shows,    \* table user_shows: set of <<user id, show id>>
    alert_config,  \* the singleton row of table alert_config
    driver,        \* how the storage driver treats a dict bound as a parameter
    script,        \* the scripted sequence of next-air-dates of the dedup scenario
    watches,       \* table watches, in insertion order (the order of watched_at)
    pending,       \* reruns of a page that have read the tables and have yet to write:
                   \* <<session, user, episode id or tmdb id>>
    now,           \* the clock: the instant of the latest run of the scheduled task
    env,           \* the process environment of the scheduled task
    last           \* what the last operation did (inputs, sends, failures)

vars == <<catalog, shows, seasons, episodes, users, user_shows, alert_config,
          driver, script, watches, pending, now, env, last>>

----------------------------------------------------------------------------
\* Catalog client.

\* A fetch request: <<"tv", tmdb_id>> or <<"season", tmdb_id, season_number>>.
StoredTmdbIds == {shows[i].tmdb_id : i \in 1..Len(shows)}
ShowRequests == {<<"tv", t>> : t \in StoredTmdbIds}
SeasonRequests == {<<"season", t, n>> : t \in StoredTmdbIds, n \in 1..MaxSeasons}
\* The requests an operation can make, and the sets of them that fail in one
\* operation.
Requests == ShowRequests \cup {q \in SeasonRequests : q[3] \in DOMAIN catalog[q[2]].season}
FailureSets == {F \in SUBSET Requests : Cardinality(F) <= MaxFailures}

\* tmdb_tv_details: the show's details, or {} when the request fails (the
\* exception is caught and reported inside the function).
tmdb_tv_details(tmdb_id, fails) ==
    IF <<"tv", tmdb_id>> \in fails THEN NoDetails ELSE catalog[tmdb_id].details

\* tmdb_season_details raises on a failed request (raise_for_status, no try).
SeasonFetchRaises(tmdb_id, season_number, fails) ==
    \/ <<"season", tmdb_id, season_number>> \in fails
    \/ season_number \notin DOMAIN catalog[tmdb_id].season
tmdb_season_details(tmdb_id, season_number) == catalog[tmdb_id].season[season_number]

----------------------------------------------------------------------------
\* Reconciliation engine.  Every operator takes and returns a record
\* db = [shows, seasons, episodes]; "raised" tells that an exception left it.

\* The id of the row of the table that has the values of key in the columns
\* of key (a unique index of the table), 0 when there is none.
RowMatches(row, key) == \A c \in DOMAIN key : row[c] = key[c]
RowIndex(table, key) ==
    IF \E i \in 1..Len(table) : RowMatches(table[i], key)
    THEN CHOOSE i \in 1..Len(table) :
             RowMatches(table[i], key) /\ \A j \in 1..(i-1) : ~RowMatches(table[j], key)
    ELSE 0

\* INSERT INTO shows ... ON CONFLICT(tmdb_id) DO UPDATE SET name, status,
\* next_air_date, overview, poster_path, first_air_date, last_air_date.
UpsertShowRow(tbl, p) ==
    LET i == RowIndex(tbl, [tmdb_id |-> p.tmdb_id])
    IN IF i = 0
       THEN Append(tbl, [tmdb_id |-> p.tmdb_id, name |-> p.name, status |-> p.status,
                         next_air_date |-> p.next_air_date, overview |-> p.overview,
                         poster_path |-> p.poster_path,
                         first_air_date |-> p.first_air_date,
                         last_air_date |-> p.last_air_date,
                         alerted_next_air_date |-> NULL])
       ELSE [tbl EXCEPT ![i] = [@ EXCEPT !.name = p.name, !.status = p.status,
                                         !.next_air_date = p.next_air_date,
                                         !.overview = p.overview,
                                         !.poster_path = p.poster_path,
                                         !.first_air_date = p.first_air_date,
                                         !.last_air_date = p.last_air_date]]

\* upsert_show: KeyError when details has no "id"; the dict {} is bound as
\* next_air_date when there is no next episode, which the driver either
\* rejects or stores as text.
UpsertShowNextAirDate(details) ==
    IF Truthy(Get(details, "next_episode_to_air"))
    THEN details["next_episode_to_air"]
    ELSE EmptyDict

upsert_show(db, details) ==
    IF "id" \notin DOMAIN details
    THEN [db |-> db, raised |-> TRUE, show_id |-> 0]
    ELSE LET next_air_date == UpsertShowNextAirDate(details)
             p == [tmdb_id |-> details["id"],
                   name |-> Or(Get(details, "name"), Or(Get(details, "original_name"), "Unknown")),
                   status |-> Get(details, "status"),
                   next_air_date |-> next_air_date,
                   overview |-> Get(details, "overview"),
                   poster_path |-> Get(details, "poster_path"),
                   first_air_date |-> Get(details, "first_air_date"),
                   last_air_date |-> Get(details, "last_air_date")]
         IN IF next_air_date = EmptyDict /\ driver = "rejects"
            THEN [db |-> db, raised |-> TRUE, show_id |-> 0]
            ELSE LET tbl == UpsertShowRow(db.shows, p)
                 IN [db |-> [db EXCEPT !.shows = tbl], raised |-> FALSE,
                     show_id |-> RowIndex(tbl, [tmdb_id |-> p.tmdb_id])]

\* upsert_season: ON CONFLICT(show_id, season_number) DO UPDATE SET name,
\* air_date, episode_count.
upsert_season(db, show_id, season_obj) ==
    LET n == season_obj["season_number"]
        i == RowIndex(db.seasons, [show_id |-> show_id, season_number |-> n])
        row == [show_id |-> show_id, season_number |-> n,
                name |-> Get(season_obj, "name"),
                air_date |-> Get(season_obj, "air_date"),
                episode_count |-> Get(season_obj, "episode_count")]
    IN IF i = 0
       THEN [db EXCEPT !.seasons = Append(@, row)]
       ELSE [db EXCEPT !.seasons[i] = row]

\* Mutant: a plain INSERT, without the ON CONFLICT clause.
InsertEpisode(db, show_id, ep) ==
    [db EXCEPT !.episodes =
        Append(@, [show_id |-> show_id,
                   season_number |-> ep["season_number"],
                   episode_number |-> ep["episode_number"],
                   tmdb_episode_id |-> Get(ep, "id"),
                   name |-> Get(ep, "name"),
                   air_date |-> Get(ep, "air_date"),
                   overview |-> Get(ep, "overview"),
                   runtime |-> Get(ep, "runtime")])]
\* Mutant: INSERT OR REPLACE, which deletes the conflicting row and inserts
\* the new one under a new id.
ReplaceEpisode(db, show_id, ep) ==
    LET i == RowIndex(db.episodes,
                      [show_id |-> show_id,
                       season_number |-> ep["season_number"],
                       episode_number |-> ep["episode_number"]])
        row == [show_id |-> show_id,
                season_number |-> ep["season_number"],
                episode_number |-> ep["episode_number"],
                tmdb_episode_id |-> Get(ep, "id"),
                name |-> Get(ep, "name"),
                air_date |-> Get(ep, "air_date"),
                overview |-> Get(ep, "overview"),
                runtime |-> Get(ep, "runtime")]
        deleted == [row EXCEPT !.show_id = 0, !.season_number = 0, !.episode_number = 0]
    IN IF i = 0 THEN [db EXCEPT !.episodes = Append(@, row)]
       ELSE [db EXCEPT !.episodes = Append([@ EXCEPT ![i] = deleted], row)]
\* upsert_episode: ON CONFLICT(show_id, season_number, episode_number) DO
\* UPDATE SET name, air_date, overview, runtime (tmdb_episode_id is only
\* written by the INSERT).
upsert_episode(db, show_id, ep) ==
    LET i == RowIndex(db.episodes,
                      [show_id |-> show_id,
                       season_number |-> ep["season_number"],
                       episode_number |-> ep["episode_number"]])
    IN IF i = 0
       THEN [db EXCEPT !.episodes =
                Append(@, [show_id |-> show_id,
                           season_number |-> ep["season_number"],
                           episode_number |-> ep["episode_number"],
                           tmdb_episode_id |-> Get(ep, "id"),
                           name |-> Get(ep, "name"),
                           air_date |-> Get(ep, "air_date"),
                           overview |-> Get(ep, "overview"),
                           runtime |-> Get(ep, "runtime")])]
       ELSE [db EXCEPT !.episodes[i] =
                [@ EXCEPT !.name = Get(ep, "name"), !.air_date = Get(ep, "air_date"),
                          !.overview = Get(ep, "overview"), !.runtime = Get(ep, "runtime")]]

\* The inner loop of sync_show_from_tmdb: every episode of one season, with
\* season_number overwritten by the season being synced.
RECURSIVE UpsertEpisodes(_, _, _, _)
UpsertEpisodes(db, show_id, season_num, eps) ==
    IF eps = <<>> THEN db
    ELSE UpsertEpisodes(upsert_episode(db, show_id,
                            [k \in DOMAIN Head(eps) \cup {"season_number"} |->
                                IF k = "season_number" THEN season_num ELSE Head(eps)[k]]),
                        show_id, season_num, Tail(eps))

\* One iteration of the season loop of sync_show_from_tmdb.
SyncSeason(db, tmdb_id, show_id, s, fails) ==
    IF "season_number" \notin DOMAIN s
    THEN [db |-> db, raised |-> FALSE]
    ELSE LET season_num == s["season_number"]
         IN IF SeasonFetchRaises(tmdb_id, season_num, fails)
            THEN [db |-> db, raised |-> TRUE]
            ELSE LET season_full == tmdb_season_details(tmdb_id, season_num)
                     db1 == upsert_season(db, show_id, season_full)
                 IN [db |-> UpsertEpisodes(db1, show_id, season_num,
                                           Get(season_full, "episodes")),
                     raised |-> FALSE]

\* The season loop of sync_show_from_tmdb: an exception leaves the loop.
RECURSIVE SyncSeasons(_, _, _, _, _)
SyncSeasons(db, tmdb_id, show_id, ss, fails) ==
    IF ss = <<>> THEN [db |-> db, raised |-> FALSE]
    ELSE LET r == SyncSeason(db, tmdb_id, show_id, Head(ss), fails)
         IN IF r.raised THEN r
            ELSE SyncSeasons(r.db, tmdb_id, show_id, Tail(ss), fails)

sync_show_from_tmdb(db, tmdb_id, fails) ==
    LET details == tmdb_tv_details(tmdb_id, fails)
        u == upsert_show(db, details)
    IN IF u.raised THEN [db |-> u.db, raised |-> TRUE]
       ELSE SyncSeasons(u.db, tmdb_id, u.show_id,
                        IF "seasons" \in DOMAIN details THEN details["seasons"] ELSE <<>>,
                        fails)

\* all_tmdb_ids_and_names: SELECT tmdb_id ... FROM shows, in row order.
all_tmdb_ids_and_names(tbl) == [i \in 1..Len(tbl) |-> tbl[i].tmdb_id]

\* Mutant: the first show that fails ends the loop.
RECURSIVE SyncAllLoopUntilFailure(_, _, _)
SyncAllLoopUntilFailure(acc, ids, fails) ==
    IF ids = <<>> THEN acc
    ELSE LET r == sync_show_from_tmdb(acc.db, Head(ids), fails)
         IN IF r.raised
            THEN [db |-> r.db, ok |-> acc.ok, failed |-> Append(acc.failed, Head(ids))]
            ELSE SyncAllLoopUntilFailure([db |-> r.db, ok |-> Append(acc.ok, Head(ids)),
                                          failed |-> acc.failed],
                                         Tail(ids), fails)
\* The loop of sync_all_shows: each show in its own try/except; a failure is
\* logged and the loop goes on.  acc = [db, ok, failed] where ok and failed
\* are the tmdb ids logged as synced and as failed.
RECURSIVE SyncAllLoop(_, _, _)
SyncAllLoop(acc, ids, fails) ==
    IF ids = <<>> THEN acc
    ELSE LET r == sync_show_from_tmdb(acc.db, Head(ids), fails)
         IN SyncAllLoop([db |-> r.db,
                         ok |-> IF r.raised THEN acc.ok ELSE Append(acc.ok, Head(ids)),
                         failed |-> IF r.raised THEN Append(acc.failed, Head(ids))
                                    ELSE acc.failed],
                        Tail(ids), fails)

sync_all_shows(db, fails) ==
    SyncAllLoop([db |-> db, ok |-> <<>>, failed |-> <<>>],
                all_tmdb_ids_and_names(db.shows), fails)

----------------------------------------------------------------------------
\* Notification channels.

\* SMTP settings of the environment (module constants read at import).
SMTP_HOST == "smtp.example.org"
SMTP_USER == "bot@example.org"
SMTP_PASS == "secret"
\* Environment defaults of the alert recipient; unset here, so the
\* alert_config row decides.
ALERT_EMAIL_TO_DEFAULT == ""
ALERT_SMS_TO_DEFAULT == ""
ALERT_SMS_CARRIER_DEFAULT == ""

\* The SMTP sessions that may fail during one operation.
Channels == {"email", "sms"}

\* The gateways table local to send_sms_via_email.
gateways == [att |-> "@txt.att.net", verizon |-> "@vtext.com",
             tmobile |-> "@tmomail.net", sprint |-> "@messaging.sprintpcs.com"]

\* A send: one SMTP submission.  meta = [kind, show, date].
SendRecord(meta, via, to, delivered) ==
    [kind |-> meta.kind, show |-> meta.show, date |-> meta.date,
     via |-> via, to |-> to, delivered |-> delivered]

\* send_email: a silent False without settings or recipient; an SMTP error is
\* caught and reported as False.
send_email(sends, meta, to_addr, smtpFail) ==
    IF ~(Truthy(SMTP_HOST) /\ Truthy(SMTP_USER) /\ Truthy(SMTP_PASS) /\ Truthy(to_addr))
    THEN [sends |-> sends, ok |-> FALSE]
    ELSE [sends |-> Append(sends, SendRecord(meta, "send_email", to_addr,
                                             "email" \notin smtpFail)),
          ok |-> "email" \notin smtpFail]

\* send_sms_via_email: ValueError on a carrier that is no key of gateways;
\* an SMTP error is not caught.  It returns None.
send_sms_via_email(sends, meta, phone_number, carrier, smtpFail) ==
    IF carrier \notin DOMAIN gateways
    THEN [sends |-> sends, raised |-> TRUE]
    ELSE [sends |-> Append(sends, SendRecord(meta, "send_sms_via_email",
                                             phone_number \o gateways[carrier],
                                             "sms" \notin smtpFail)),
          raised |-> "sms" \in smtpFail]

----------------------------------------------------------------------------
\* Change detector and alert deduplicator: check_and_alert_updates.

\* new_date of check_and_alert_updates: (details.get("next_episode_to_air") or {}).get("air_date")
CheckNewDate(details) ==
    IF Truthy(Get(details, "next_episode_to_air")) THEN details["next_episode_to_air"] ELSE NULL

\* Mutant: the comparison with the stored date is lost.
ChangeDetectedAlways(new_date, old_date) == TRUE
\* "if new_date != old_date"
ChangeDetected(new_date, old_date) == new_date # old_date

\* Mutant: the truthiness test of the new date is lost.
ShouldAlertOnNull(new_date, alerted) == new_date # alerted
\* Mutant: only a show never alerted before is alerted.
ShouldAlertOnce(new_date, alerted) == Truthy(new_date) /\ alerted = NULL
\* "if new_date and new_date != s['alerted_next_air_date']"
ShouldAlert(new_date, alerted) == Truthy(new_date) /\ new_date # alerted

\* The three channel blocks of check_and_alert_updates for one show, in
\* order; an exception of send_sms_via_email leaves them.
CheckDispatch(sends, meta, cfg, smtpFail) ==
    LET email_to == Or(cfg.email_to, ALERT_EMAIL_TO_DEFAULT)
        sms_to == Or(cfg.sms_to, ALERT_SMS_TO_DEFAULT)
        sms_carrier == Or(cfg.sms_carrier, ALERT_SMS_CARRIER_DEFAULT)
        e == IF cfg.email_enabled /\ Truthy(email_to)
             THEN send_email(sends, meta, email_to, smtpFail).sends
             ELSE sends
        t == IF cfg.sms_enabled /\ Truthy(sms_to)
             THEN send_sms_via_email(e, meta, sms_to, sms_carrier, smtpFail)
             ELSE [sends |-> e, raised |-> FALSE]
    IN IF t.raised THEN t
       ELSE IF cfg.sms_via_email_enabled /\ Truthy(sms_to)
            THEN send_sms_via_email(t.sends, meta, sms_to, sms_carrier, smtpFail)
            ELSE t

\* After the channel blocks: "UPDATE shows SET alerted_next_air_date=?".
RecordAlerted(tbl, i, new_date) == [tbl EXCEPT ![i].alerted_next_air_date = new_date]

\* The body of the loop of check_and_alert_updates for the show of row i.
\* acc = [shows, sends, attempts, processed, updated, raised]; s is the row as read
\* by "SELECT * FROM shows" at the start of the operation.
CheckShow(acc, i, s, cfg, fails, smtpFail) ==
    LET details == tmdb_tv_details(s.tmdb_id, fails)
        new_date == CheckNewDate(details)
        old_date == s.next_air_date
        acc1 == [acc EXCEPT !.processed = @ \cup {i}]
    IN IF ~ChangeDetected(new_date, old_date) THEN acc1
       ELSE LET upd == [acc1.shows EXCEPT ![i] =
                          [@ EXCEPT !.next_air_date = new_date,
                                    !.status = Get(details, "status"),
                                    !.first_air_date = Get(details, "first_air_date"),
                                    !.last_air_date = Get(details, "last_air_date")]]
                acc2 == [acc1 EXCEPT !.shows = upd, !.updated = @ \cup {i}]
            IN IF ~ShouldAlert(new_date, s.alerted_next_air_date) THEN acc2
               ELSE LET d == CheckDispatch(acc2.sends,
                                           [kind |-> "change", show |-> i, date |-> new_date],
                                           cfg, smtpFail)
                        acc3 == [acc2 EXCEPT !.sends = d.sends,
                                             !.attempts = @ \cup {<<i, new_date>>}]
                    IN IF d.raised THEN [acc3 EXCEPT !.raised = TRUE]
                       ELSE [acc3 EXCEPT !.shows = RecordAlerted(@, i, new_date)]

RECURSIVE CheckLoop(_, _, _, _, _, _)
CheckLoop(acc, i, rows, cfg, fails, smtpFail) ==
    IF i > Len(rows) \/ acc.raised THEN acc
    ELSE CheckLoop(CheckShow(acc, i, rows[i], cfg, fails, smtpFail),
                   i + 1, rows, cfg, fails, smtpFail)

check_and_alert_updates(tbl, cfg, fails, smtpFail) ==
    CheckLoop([shows |-> tbl, sends |-> <<>>, attempts |-> {}, processed |-> {},
               updated |-> {}, raised |-> FALSE],
              1, tbl, cfg, fails, smtpFail)

----------------------------------------------------------------------------
\* The per-user sync of the interactive application: sync_show_updates.

\* details.get("next_episode_to_air", {}).get("air_date"): AttributeError
\* when the key is present with value None.
UserNewDateRaises(details) ==
    "next_episode_to_air" \in DOMAIN details /\ details["next_episode_to_air"] = NULL
UserNewDate(details) == Get(details, "next_episode_to_air")

\* "if new_air_date and new_air_date != old_air_date"
UserChangeDetected(new_air_date, old_air_date) ==
    Truthy(new_air_date) /\ new_air_date # old_air_date

\* The body of the loop of sync_show_updates for one tracked show, inside
\* its try/except.  acc = [shows, sends, attempts, processed, updated, errors].
UserSyncShow(acc, i, s, user, fails, smtpFail) ==
    LET details == tmdb_tv_details(s.tmdb_id, fails)
        acc1 == [acc EXCEPT !.processed = @ \cup {i}]
    IN IF UserNewDateRaises(details) THEN [acc1 EXCEPT !.errors = @ \cup {i}]
       ELSE LET new_air_date == UserNewDate(details)
            IN IF ~UserChangeDetected(new_air_date, s.next_air_date) THEN acc1
               ELSE LET meta == [kind |-> "change", show |-> i, date |-> new_air_date]
                        acc2 == [acc1 EXCEPT !.shows[i].next_air_date = new_air_date,
                                             !.updated = @ \cup {i},
                                             !.attempts = @ \cup {<<i, new_air_date>>}]
                        e == IF user.enable_email /\ Truthy(user.email)
                             THEN send_email(acc2.sends, meta, user.email, smtpFail).sends
                             ELSE acc2.sends
                        t == IF user.enable_sms /\ Truthy(user.phone) /\ Truthy(user.carrier)
                             THEN send_sms_via_email(e, meta, user.phone, user.carrier, smtpFail)
                             ELSE [sends |-> e, raised |-> FALSE]
                    IN [acc2 EXCEPT !.sends = t.sends,
                                    !.errors = IF t.raised THEN @ \cup {i} ELSE @]

RECURSIVE UserSyncLoop(_, _, _, _, _, _)
UserSyncLoop(acc, ids, rows, user, fails, smtpFail) ==
    IF ids = <<>> THEN acc
    ELSE UserSyncLoop(UserSyncShow(acc, Head(ids), rows[Head(ids)], user, fails, smtpFail),
                      Tail(ids), rows, user, fails, smtpFail)

\* The shows tracked by a user, in row order (the JOIN on user_shows).
TrackedShows(tbl, links, user_id) ==
    SeqOfSet({i \in 1..Len(tbl) : <<user_id, i>> \in links})

sync_show_updates(tbl, usrs, links, user_id, fails, smtpFail) ==
    LET acc0 == [shows |-> tbl, sends |-> <<>>, attempts |-> {}, processed |-> {},
                 updated |-> {}, errors |-> {}]
    IN IF user_id \notin DOMAIN usrs THEN acc0
       ELSE UserSyncLoop(acc0, TrackedShows(tbl, links, user_id), tbl,
                         usrs[user_id], fails, smtpFail)

----------------------------------------------------------------------------
\* The scheduled task (tasks_sync_and_alerts.py): clock and alert window.

MaxDay == 7          \* UTC days 0..MaxDay of the instants explored
MaxWatches == 1      \* rows of table watches

\* An instant is [day, sec, micro, offset]: the UTC day number (day 0 is
\* Monday 2024-02-19), the second of that day, the microsecond, and the UTC
\* offset in hours that the zone America/Denver has at that instant (-7 in
\* winter, -6 in summer).
SecondsPerHour == 3600
SecondsPerDay == 24 * SecondsPerHour
DenverOffsets == {-7, -6}

Instant(d, h, m, sec, us, off) ==
    [day |-> d, sec |-> h * SecondsPerHour + m * 60 + sec, micro |-> us, offset |-> off]
\* The clock before any run of the task: Sunday 2024-02-25 15:00 UTC.
Epoch == Instant(6, 15, 0, 0, 0, -7)
InstantLeq(a, b) ==
    \/ a.day < b.day
    \/ a.day = b.day /\ a.sec < b.sec
    \/ a.day = b.day /\ a.sec = b.sec /\ a.micro <= b.micro

\* datetime.astimezone(DENVER_TZ): the local wall clock [day, sec, micro].
astimezone(now_utc) ==
    LET s == now_utc.sec + now_utc.offset * SecondsPerHour
        carry == IF s < 0 THEN -1 ELSE IF s >= SecondsPerDay THEN 1 ELSE 0
    IN [day |-> now_utc.day + carry, sec |-> s - carry * SecondsPerDay,
        micro |-> now_utc.micro]

\* Mutant: weekday numbered from Sunday = 0.
WeekdayFromSunday(d) == (d.day + 1) % 7
\* datetime.weekday(): Monday is 0 and Sunday is 6.
weekday(d) == d.day % 7

\* datetime.time(h, m, s) and the order of time objects.
time(h, m, sec) == [sec |-> h * SecondsPerHour + m * 60 + sec, micro |-> 0]
TimeOf(d) == [sec |-> d.sec, micro |-> d.micro]
TimeLeq(a, b) == a.sec < b.sec \/ (a.sec = b.sec /\ a.micro <= b.micro)

is_alert_window_denver(now_utc) ==
    LET denver == astimezone(now_utc)
    IN IF weekday(denver) # 6 THEN FALSE
       ELSE /\ TimeLeq(time(13, 0, 0), TimeOf(denver))
            /\ TimeLeq(TimeOf(denver), time(23, 59, 59))

\* denver_today_and_horizon(days): the local date and the date days later.
denver_today_and_horizon(now_utc, days) ==
    LET denver == astimezone(now_utc)
    IN [start |-> denver.day, end |-> denver.day + days]

\* SQLite date(text): the day number of an ISO date of DateNames (weekly
\* Fridays from 2024-03-01, which is day 11), null for anything else.
DayOfDate(d) ==
    IF \E i \in 1..Len(DateNames) : DateNames[i] = d
    THEN 11 + 7 * ((CHOOSE i \in 1..Len(DateNames) : DateNames[i] = d) - 1)
    ELSE -1

----------------------------------------------------------------------------
\* The scheduled task: environment, alert content, dispatch, main.

\* The process environment: variable name -> value, NULL when unset.
EnvNames == {"DEFAULT_API_KEY", "SQLITE_CLOUD_URL", "SQLITE_USER", "SQLITE_PASSWORD",
             "SQLITE_DB", "SMTP_HOST", "SMTP_USER", "SMTP_PASS",
             "ALERT_SMS_TO", "ALERT_SMS_CARRIER"}
CompleteEnv ==
    [n \in EnvNames |->
        CASE n = "DEFAULT_API_KEY" -> "tmdb-key"
          [] n = "SQLITE_CLOUD_URL" -> "sqlitecloud://host/db"
          [] n = "SMTP_HOST" -> "smtp.example.org"
          [] n = "SMTP_USER" -> "bot@example.org"
          [] n = "SMTP_PASS" -> "secret"
          [] OTHER -> NULL]

\* get_env_str(name): the stripped value, or None when unset or blank
\* (default None); with required=True an unset or blank value raises.
get_env_str(e, name) == IF e[name] = NULL \/ e[name] = "" \/ e[name] = " " THEN NULL ELSE e[name]
RequiredMissing(e, name) == get_env_str(e, name) = NULL

\* build_sqlitecloud_url / get_conn: the URL, or user, password and db,
\* each required.
GetConnRaises(e) ==
    /\ get_env_str(e, "SQLITE_CLOUD_URL") = NULL
    /\ \/ RequiredMissing(e, "SQLITE_USER")
       \/ RequiredMissing(e, "SQLITE_PASSWORD")
       \/ RequiredMissing(e, "SQLITE_DB")

\* str.lower() and the digit filter, on the values of this model.
Lower(x) == CASE x = "Verizon" -> "verizon" [] x = "AT&T" -> "at&t" [] OTHER -> x
Digits(x) == CASE x = "555-123-4567" -> "5551234567" [] OTHER -> x

\* CARRIER_GATEWAYS of the task: carrier key -> domain of the address.
TASK_CARRIER_GATEWAYS ==
    [att |-> "@txt.att.net", att_mms |-> "@mms.att.net", verizon |-> "@vtext.com",
     verizon_mms |-> "@vzwpix.com", tmobile |-> "@tmomail.net",
     sprint |-> "@messaging.sprintpcs.com", googlefi |-> "@msg.fi.google.com",
     xfinity |-> "@vtext.com"]

\* _sms_email_address: None without number or carrier or with a carrier
\* that is no key of the table.
sms_email_address(e) ==
    LET number == get_env_str(e, "ALERT_SMS_TO")
        carrier == Lower(Or(get_env_str(e, "ALERT_SMS_CARRIER"), ""))
    IN IF ~Truthy(number) \/ ~Truthy(carrier) THEN NULL
       ELSE IF carrier \notin DOMAIN TASK_CARRIER_GATEWAYS THEN NULL
       ELSE Digits(number) \o TASK_CARRIER_GATEWAYS[carrier]

\* CARRIER_GATEWAYS of the application, and sms_via_email_address: no
\* address for a carrier whose lower-cased key is not in the table.
CARRIER_GATEWAYS ==
    [att |-> "@txt.att.net", verizon |-> "@vtext.com",
     tmobile |-> "@tmomail.net", sprint |-> "@messaging.sprintpcs.com"]
sms_via_email_address(phone, carrier) ==
    IF Lower(carrier) \notin DOMAIN CARRIER_GATEWAYS THEN NULL
    ELSE phone \o CARRIER_GATEWAYS[Lower(carrier)]

\* all_users: SELECT id, COALESCE(email, '') FROM users, in row order.
all_users(usrs) == [u \in 1..Len(usrs) |-> <<u, Or(usrs[u].email, "")>>]

\* Mutant: a watch of any user hides the episode.
UpcomingUnwatchedByAll(eps, links, wts, user_id, start_date, end_date) ==
    {k \in 1..Len(eps) :
        /\ <<user_id, eps[k].show_id>> \in links
        /\ ~\E w \in 1..Len(wts) : wts[w].episode_id = k
        /\ eps[k].air_date # NULL
        /\ DayOfDate(eps[k].air_date) >= start_date
        /\ DayOfDate(eps[k].air_date) <= end_date}
\* upcoming_for_user: the ids of the episodes of the shows the user tracks
\* that the user has no watch of and whose air date lies in
\* [start_date, end_date].
Upcoming(eps, links, wts, user_id, start_date, end_date) ==
    {k \in 1..Len(eps) :
        /\ <<user_id, eps[k].show_id>> \in links
        /\ ~\E w \in 1..Len(wts) : wts[w].user_id = user_id /\ wts[w].episode_id = k
        /\ eps[k].air_date # NULL
        /\ DayOfDate(eps[k].air_date) >= start_date
        /\ DayOfDate(eps[k].air_date) <= end_date}
\* ORDER BY e.air_date, s.name, e.season_number, e.episode_number (ties in
\* row order).
ItemBefore(eps, a, b) ==
    LET ka == <<DayOfDate(eps[a].air_date), eps[a].season_number, eps[a].episode_number, a>>
        kb == <<DayOfDate(eps[b].air_date), eps[b].season_number, eps[b].episode_number, b>>
    IN \E i \in 1..4 : ka[i] < kb[i] /\ \A j \in 1..(i - 1) : ka[j] = kb[j]
RECURSIVE OrderItems(_, _)
OrderItems(eps, S) ==
    IF S = {} THEN <<>>
    ELSE LET m == CHOOSE x \in S : \A y \in S \ {x} : ItemBefore(eps, x, y)
         IN <<m>> \o OrderItems(eps, S \ {m})
upcoming_for_user(eps, links, wts, user_id, start_date, end_date) ==
    OrderItems(eps, Upcoming(eps, links, wts, user_id, start_date, end_date))

\* _send_email of the task: RuntimeError when SMTP_USER, SMTP_HOST or
\* SMTP_PASS is missing (no session is opened); any SMTP error is raised.
\* acc = [sends, log, warnings, notified]; meta = [user, items, channel].
TaskSendRecord(meta, to, delivered) ==
    [kind |-> "upcoming", show |-> 0, date |-> NULL, via |-> "_send_email",
     to |-> to, delivered |-> delivered, user |-> meta.user, items |-> meta.items,
     channel |-> meta.channel]
SmtpClientRaises(e) ==
    \/ RequiredMissing(e, "SMTP_USER")
    \/ RequiredMissing(e, "SMTP_HOST")
    \/ RequiredMissing(e, "SMTP_PASS")
TaskSendEmail(acc, e, meta, to, channel, smtpFail) ==
    IF SmtpClientRaises(e) THEN [acc |-> acc, raised |-> TRUE]
    ELSE [acc |-> [acc EXCEPT !.sends = Append(@, TaskSendRecord([meta EXCEPT !.channel = channel],
                                                                 to, channel \notin smtpFail)),
                              !.log = Append(@, <<"send", to>>)],
          raised |-> channel \in smtpFail]

\* send_alert_bundle: the SMS gateway address of the environment first,
\* then the user's email address; each send in its own try/except.
send_alert_bundle(acc, e, user_id, email, items, smtpFail) ==
    IF items = <<>> THEN acc
    ELSE LET meta == [user |-> user_id, items |-> items, channel |-> ""]
             sms_addr == sms_email_address(e)
             a1 == IF Truthy(sms_addr)
                   THEN LET r == TaskSendEmail(acc, e, meta, sms_addr, "sms", smtpFail)
                        IN IF r.raised
                           THEN [r.acc EXCEPT !.warnings = @ \cup {<<user_id, "sms">>}]
                           ELSE r.acc
                   ELSE acc
         IN IF Truthy(email)
            THEN LET r == TaskSendEmail(a1, e, meta, email, "email", smtpFail)
                 IN IF r.raised
                    THEN [r.acc EXCEPT !.warnings = @ \cup {<<user_id, "email">>}]
                    ELSE r.acc
            ELSE a1

\* The alert stage of main: for each user, the upcoming items and, when
\* there are any, the bundle.
RECURSIVE AlertLoop(_, _, _, _, _, _, _, _)
AlertLoop(acc, e, us, eps, links, wts, horizon, smtpFail) ==
    IF us = <<>> THEN acc
    ELSE LET user_id == Head(us)[1]
             items == upcoming_for_user(eps, links, wts, user_id, horizon.start, horizon.end)
             acc1 == [acc EXCEPT !.log = Append(@, <<"upcoming", user_id>>),
                                 !.notified = @ \cup {user_id}]
         IN AlertLoop(send_alert_bundle(acc1, e, user_id, Head(us)[2], items, smtpFail),
                      e, Tail(us), eps, links, wts, horizon, smtpFail)

\* Mutant: the alert stage runs whatever the window predicate says.
AlertStageAlways(now_utc) == TRUE
\* "if is_alert_window_denver():"
AlertStageRuns(now_utc) == is_alert_window_denver(now_utc)

\* The log of the synchronisation stage: one entry per show, in order.
SyncLog(ids) == [k \in 1..Len(ids) |-> <<"sync", ids[k]>>]

\* Mutant: the alert stage of main reads the tables as they were before the
\* synchronisation.
StaleAlertStageTables(before, after) == before
\* The alert stage reads the tables the synchronisation left.
AlertStageTables(before, after) == after

\* main: the API key and the connection are required before any work; then
\* the synchronisation, then the alert stage when the window is open.
main(e, now_utc, db, usrs, links, wts, fails, smtpFail) ==
    LET none == [aborted |-> TRUE, db |-> db, ok |-> <<>>, failed |-> <<>>, window |-> FALSE,
                 sends |-> <<>>, log |-> <<>>, warnings |-> {}, notified |-> {}]
    IN IF RequiredMissing(e, "DEFAULT_API_KEY") \/ GetConnRaises(e) THEN none
       ELSE LET s == sync_all_shows(db, fails)
                acc0 == [sends |-> <<>>, log |-> SyncLog(all_tmdb_ids_and_names(db.shows)),
                         warnings |-> {}, notified |-> {}]
                a == IF AlertStageRuns(now_utc)
                     THEN AlertLoop(acc0, e, all_users(usrs),
                                    AlertStageTables(db, s.db).episodes, links, wts,
                                    denver_today_and_horizon(now_utc, 7), smtpFail)
                     ELSE acc0
            IN [aborted |-> FALSE, db |-> s.db, ok |-> s.ok, failed |-> s.failed,
                window |-> is_alert_window_denver(now_utc),
                sends |-> a.sends, log |-> a.log, warnings |-> a.warnings,
                notified |-> a.notified]

----------------------------------------------------------------------------
\* The environment: the catalog's content, the stored configuration.

MaxRevision == 2     \* revisions of a show's episode metadata in the catalog
MaxRuns == 2         \* runs of the check per phase of the dedup scenario

\* What the catalog serves for show t: its next air date (or null), k
\* seasons of e episodes each, episode metadata at revision r.
EpisodeOf(t, n, j, r) ==
    [episode_number |-> j,
     id |-> "ep-" \o ToString(t) \o "-" \o ToString(n) \o "-" \o ToString(j) \o "-r" \o ToString(r),
     name |-> "Episode title r" \o ToString(r),
     air_date |-> DateNames[1],
     overview |-> "Episode overview r" \o ToString(r),
     runtime |-> "45"]

CatalogEntry(t, next, k, e, r) ==
    [details |-> [id |-> t, name |-> "Show", status |-> "Returning Series",
                  next_episode_to_air |-> next, overview |-> "Overview",
                  poster_path |-> "/poster.jpg", first_air_date |-> "2020-01-01",
                  last_air_date |-> "2024-02-23",
                  seasons |-> [n \in 1..k |-> [season_number |-> n, episode_count |-> e]]],
     season |-> [n \in 1..k |->
                    [season_number |-> n, name |-> "Season", air_date |-> "2020-01-01",
                     episode_count |-> e,
                     episodes |-> [j \in 1..e |-> EpisodeOf(t, n, j, r)]]],
     rev |-> r]

\* The row page_add_show inserts for a show whose next air date was next:
\* tmdb_id, name, status, next_air_date; the other columns default to NULL.
AddedShowRow(t, next) ==
    [tmdb_id |-> t, name |-> "Show", status |-> "Returning Series",
     next_air_date |-> next, overview |-> NULL, poster_path |-> NULL,
     first_air_date |-> NULL, last_air_date |-> NULL,
     alerted_next_air_date |-> NULL]

\* The rows alert_config can hold.
AlertConfigs ==
    [email_to : {NULL, "me@example.org"}, sms_to : {NULL, "5551234567"},
     sms_carrier : {"verizon", "Verizon"},
     email_enabled : BOOLEAN, sms_enabled : BOOLEAN, sms_via_email_enabled : BOOLEAN]

\* The rows of alert_config the pipeline is explored with: every channel
\* off; a channel on without recipient; email only; SMS only with a carrier
\* key of the gateways table, and with one that is not; every channel on.
AlertConfigCases ==
    {c \in AlertConfigs :
        \/ ~c.email_enabled /\ ~c.sms_enabled /\ ~c.sms_via_email_enabled
             /\ c.email_to # NULL /\ c.sms_to # NULL /\ c.sms_carrier = "verizon"
        \/ c.email_enabled /\ ~c.sms_enabled /\ ~c.sms_via_email_enabled
             /\ c.email_to = NULL /\ c.sms_to = NULL /\ c.sms_carrier = "verizon"
        \/ c.email_enabled /\ ~c.sms_enabled /\ ~c.sms_via_email_enabled
             /\ c.email_to # NULL /\ c.sms_to # NULL /\ c.sms_carrier = "verizon"
        \/ ~c.email_enabled /\ c.sms_enabled /\ ~c.sms_via_email_enabled
             /\ c.email_to # NULL /\ c.sms_to # NULL
        \/ c.email_enabled /\ c.sms_enabled /\ c.sms_via_email_enabled
             /\ c.email_to # NULL /\ c.sms_to # NULL /\ c.sms_carrier = "verizon"}

\* Two accounts as the signup form stores them (the carrier is the label of
\* the select box): one alerted by email, one by SMS.
SignedUpUsers ==
    <<[email |-> "ann@example.org", phone |-> "", carrier |-> "",
       enable_email |-> TRUE, enable_sms |-> FALSE],
      [email |-> "bob@example.org", phone |-> "5550001111", carrier |-> "Verizon",
       enable_email |-> FALSE, enable_sms |-> TRUE]>>

\* The dedup scenario: the catalog's next air date of show 1 goes through
\* dates[1] (d0), dates[2] (d1), dates[3] (d2); phase is the index of the
\* current one, runs[p] counts the checks run in phase p, attempts counts the
\* notification attempts made so far and emails the send_email submissions.
NoScript == [dates |-> <<>>, phase |-> 0, runs |-> <<>>, attempts |-> 0, emails |-> 0]
ScriptDates == {DateNames[i] : i \in 1..(MaxDate + 1)}
Scripts ==
    {[dates |-> <<d0, d1, d2>>, phase |-> 1, runs |-> <<0, 0, 0>>, attempts |-> 0,
      emails |-> 0] :
        d0 \in ScriptDates \cup {NULL}, d1 \in ScriptDates, d2 \in ScriptDates}

\* What an operation leaves in "last": its name and user, the fetches that
\* failed, the shows whose details it fetched (processed), the shows whose
\* row it updated (updated), the <<show, date>> pairs for which the alert
\* gate passed and the channels were consulted (attempts), the SMTP
\* submissions made (sends), whether an exception left the operation
\* (raised), the shows reported with an error (errors), the shows logged as
\* synced (ok) and as failed (failed), and whether the operation repeats the
\* one before it: same operation, same user, same failing fetches, and no
\* change of the catalog in between (repeat).  before[i] is the stored next
\* air date and the watermark of row i when the operation started.  tick
\* flips at every operation.  For the scheduled task: whether the run was
\* aborted before any work (aborted), what the window predicate said
\* (window), the sync, upcoming and send events in the order they happened
\* (log), the <<user, channel>> sends logged as failed (warnings) and the
\* users the alert stage processed (notified).
Observation(op, user, fails) ==
    [op |-> op, user |-> user, fails |-> fails,
     processed |-> {}, updated |-> {}, attempts |-> {}, sends |-> <<>>,
     raised |-> FALSE, errors |-> {}, ok |-> <<>>, failed |-> <<>>,
     aborted |-> FALSE, window |-> FALSE, log |-> <<>>, warnings |-> {}, notified |-> {},
     repeat |-> last.op = op /\ last.user = user /\ last.fails = fails,
     before |-> [i \in 1..Len(shows) |->
                    <<shows[i].next_air_date, shows[i].alerted_next_air_date>>],
     tick |-> 1 - last.tick]

InitialObservation ==
    [op |-> "init", user |-> 0, fails |-> {},
     processed |-> {}, updated |-> {}, attempts |-> {}, sends |-> <<>>,
     raised |-> FALSE, errors |-> {}, ok |-> <<>>, failed |-> <<>>,
     aborted |-> FALSE, window |-> FALSE, log |-> <<>>, warnings |-> {}, notified |-> {},
     repeat |-> FALSE, before |-> <<>>, tick |-> 0]

Idle(op) ==
    [Observation(op, 0, {}) EXCEPT !.tick = last.tick, !.repeat = FALSE, !.before = <<>>]

Db == [shows |-> shows, seasons |-> seasons, episodes |-> episodes]

----------------------------------------------------------------------------
\* Operations.

\* The synchronisation stage of the scheduled task.
SyncAllShows ==
    \E fails \in FailureSets :
        \E r \in {sync_all_shows(Db, fails)} :
           /\ shows' = r.db.shows
           /\ seasons' = r.db.seasons
           /\ episodes' = r.db.episodes
           /\ last' = [Observation("sync_all_shows", 0, fails) EXCEPT
                          !.ok = r.ok, !.failed = r.failed]
           /\ UNCHANGED <<pending, watches, now, env, catalog, users, user_shows, alert_config, driver, script>>

\* The inputs of an operation are the fetches and the SMTP sessions that
\* fail in it: a fetch the operation does not make, or a session it does not
\* open, cannot fail.
FailedFetchesMade(fails, processed) ==
    fails \subseteq {<<"tv", shows[i].tmdb_id>> : i \in processed}
FailedSessionsOpened(smtpFail, sends) ==
    /\ "email" \in smtpFail => \E k \in 1..Len(sends) : sends[k].via = "send_email"
    /\ "sms" \in smtpFail => \E k \in 1..Len(sends) : sends[k].via = "send_sms_via_email"

CheckEffect(fails, smtpFail) ==
    LET r == check_and_alert_updates(shows, alert_config, fails, smtpFail)
    IN /\ FailedFetchesMade(fails, r.processed)
       /\ FailedSessionsOpened(smtpFail, r.sends)
       /\ shows' = r.shows
       /\ last' = [Observation("check_and_alert_updates", 0, fails) EXCEPT
                      !.processed = r.processed, !.updated = r.updated,
                      !.attempts = r.attempts, !.sends = r.sends, !.raised = r.raised]
       /\ UNCHANGED <<pending, watches, now, env, catalog, seasons, episodes, users, user_shows, alert_config, driver>>

CheckAndAlertUpdates ==
    \E fails \in FailureSets, smtpFail \in SUBSET Channels :
        /\ CheckEffect(fails, smtpFail)
        /\ UNCHANGED script

\* Login, or "Check Now" on the alerts page, of user u.
SyncShowUpdates ==
    \E u \in DOMAIN users, fails \in FailureSets, smtpFail \in SUBSET Channels :
        LET r == sync_show_updates(shows, users, user_shows, u, fails, smtpFail)
        IN /\ FailedFetchesMade(fails, r.processed)
           /\ FailedSessionsOpened(smtpFail, r.sends)
           /\ shows' = r.shows
           /\ last' = [Observation("sync_show_updates", u, fails) EXCEPT
                          !.processed = r.processed, !.updated = r.updated,
                          !.attempts = r.attempts, !.sends = r.sends,
                          !.errors = r.errors]
           /\ UNCHANGED <<pending, watches, now, env, catalog, seasons, episodes, users, user_shows, alert_config,
                          driver, script>>

\* The catalog announces, moves or withdraws the next episode of a show.
CatalogAirDate ==
    \E t \in {shows[i].tmdb_id : i \in 1..Len(shows)}, d \in Dates \cup {NULL} :
        /\ d # catalog[t].details["next_episode_to_air"]
        /\ catalog' = [catalog EXCEPT ![t].details["next_episode_to_air"] = d]
        /\ last' = Idle("catalog")
        /\ UNCHANGED <<pending, watches, now, env, shows, seasons, episodes, users, user_shows, alert_config,
                       driver, script>>

\* The catalog revises the episode metadata of a show.
CatalogRevise ==
    \E t \in TmdbIds :
        /\ catalog[t].rev < MaxRevision
        /\ catalog' = [catalog EXCEPT ![t] =
                          CatalogEntry(t, @.details["next_episode_to_air"],
                                       Len(@.details["seasons"]),
                                       IF @.details["seasons"] = <<>> THEN 0
                                       ELSE @.details["seasons"][1]["episode_count"],
                                       @.rev + 1)]
        /\ last' = Idle("catalog")
        /\ UNCHANGED <<pending, watches, now, env, shows, seasons, episodes, users, user_shows, alert_config,
                       driver, script>>

----------------------------------------------------------------------------
\* Spec: the alerting pipeline for one show already added, while the
\* catalog moves its next air date.

Init ==
    /\ catalog = [t \in TmdbIds |-> CatalogEntry(t, NULL, 0, 0, 1)]
    /\ shows = <<AddedShowRow(1, NULL)>>
    /\ seasons = <<>>
    /\ watches = <<>>
    /\ pending = {}
    /\ now = Epoch
    /\ env = CompleteEnv
    /\ episodes = <<>>
    /\ users = SignedUpUsers
    /\ user_shows = {<<u, 1>> : u \in DOMAIN SignedUpUsers}
    /\ alert_config \in AlertConfigCases
    /\ driver \in {"rejects", "stores"}
    /\ script = NoScript
    /\ last = InitialObservation

Next ==
    \/ SyncAllShows
    \/ CheckAndAlertUpdates
    \/ SyncShowUpdates
    \/ CatalogAirDate

Spec == Init /\ [][Next]_vars

----------------------------------------------------------------------------
\* SpecBatch: the operations over several shows added when their next air
\* date was the first date; the catalog has moved since and stays as it is.

InitBatch ==
    /\ catalog \in {[t \in TmdbIds |-> CatalogEntry(t, next[t], 0, 0, 1)] :
                        next \in [TmdbIds -> Dates \cup {NULL}]}
    /\ shows = [t \in TmdbIds |-> AddedShowRow(t, DateNames[1])]
    /\ seasons = <<>>
    /\ watches = <<>>
    /\ pending = {}
    /\ now = Epoch
    /\ env = CompleteEnv
    /\ episodes = <<>>
    /\ users = SignedUpUsers
    /\ user_shows = {<<1, t>> : t \in TmdbIds} \cup {<<2, 1>>}
    /\ alert_config \in {c \in AlertConfigCases : c.email_enabled = c.sms_enabled /\ c.email_to # NULL}
    /\ driver \in {"rejects", "stores"}
    /\ script = NoScript
    /\ last = InitialObservation

NextBatch ==
    \/ SyncAllShows
    \/ CheckAndAlertUpdates
    \/ SyncShowUpdates

SpecBatch == InitBatch /\ [][NextBatch]_vars

----------------------------------------------------------------------------
\* SpecDedup: repeated runs of check_and_alert_updates for one show while
\* the catalog's next air date goes d0 -> d1 -> d2, from a stored date d0 and
\* a watermark that is neither d1 nor d2.

InitDedup ==
    /\ script \in {sc \in Scripts : /\ sc.dates[2] # sc.dates[3]
                                    /\ sc.dates[1] \notin {sc.dates[2], sc.dates[3]}}
    /\ catalog = [t \in TmdbIds |->
                     CatalogEntry(t, IF t = 1 THEN script.dates[1] ELSE NULL, 0, 0, 1)]
    /\ \E w \in (ScriptDates \cup {NULL}) \ {script.dates[2], script.dates[3]} :
          shows = <<[AddedShowRow(1, script.dates[1]) EXCEPT !.alerted_next_air_date = w]>>
    /\ seasons = <<>>
    /\ watches = <<>>
    /\ pending = {}
    /\ now = Epoch
    /\ env = CompleteEnv
    /\ episodes = <<>>
    /\ users = SignedUpUsers
    /\ user_shows = {<<u, 1>> : u \in DOMAIN SignedUpUsers}
    /\ alert_config \in AlertConfigs
    /\ driver = "rejects"
    /\ last = InitialObservation

\* One run of the check in the current phase; every fetch succeeds.
DedupRun ==
    /\ script.runs[script.phase] < MaxRuns
    /\ \E smtpFail \in SUBSET Channels : CheckEffect({}, smtpFail)
    /\ script' = [script EXCEPT !.runs[script.phase] = @ + 1,
                                !.attempts = @ + Cardinality(last'.attempts),
                                !.emails = @ + Cardinality(
                                    {k \in 1..Len(last'.sends) :
                                        last'.sends[k].via = "send_email"})]

\* The catalog moves to the next date of the script.
DedupAdvance ==
    /\ script.phase < Len(script.dates)
    /\ script' = [script EXCEPT !.phase = @ + 1]
    /\ catalog' = [catalog EXCEPT ![1].details["next_episode_to_air"] =
                                      script.dates[script.phase + 1]]
    /\ last' = Idle("catalog")
    /\ UNCHANGED <<pending, watches, now, env, shows, seasons, episodes, users, user_shows, alert_config, driver>>

NextDedup == DedupRun \/ DedupAdvance

SpecDedup == InitDedup /\ [][NextDedup]_vars

----------------------------------------------------------------------------
\* SpecSync: the reconciliation of shows with seasons and episodes, while
\* the catalog revises the episode metadata.

InitSync ==
    /\ catalog \in {[t \in TmdbIds |-> CatalogEntry(t, next[t], k, e, 1)] :
                        next \in [TmdbIds -> {NULL, DateNames[1]}],
                        k \in 0..MaxSeasons, e \in 1..MaxEpisodes}
    /\ shows = [t \in TmdbIds |-> AddedShowRow(t, catalog[t].details["next_episode_to_air"])]
    /\ seasons = <<>>
    /\ watches = <<>>
    /\ pending = {}
    /\ now = Epoch
    /\ env = CompleteEnv
    /\ episodes = <<>>
    /\ users = SignedUpUsers
    /\ user_shows = {<<1, t>> : t \in TmdbIds} \cup {<<2, 1>>}
    /\ alert_config \in {c \in AlertConfigCases : ~c.email_enabled /\ ~c.sms_enabled}
    /\ driver \in {"rejects", "stores"}
    /\ script = NoScript
    /\ last = InitialObservation

NextSync ==
    \/ SyncAllShows
    \/ CatalogRevise

SpecSync == InitSync /\ [][NextSync]_vars

----------------------------------------------------------------------------
\* Further operations: watches, the scheduled task, the window predicate.

\* log_watch: user u marks an episode watched.
LogWatch ==
    \E u \in DOMAIN users, e \in 1..Len(episodes) :
        /\ Len(watches) < MaxWatches
        /\ watches' = Append(watches, [user_id |-> u, episode_id |-> e,
                                       rating |-> NULL, notes |-> NULL])
        /\ last' = Idle("log_watch")
        /\ UNCHANGED <<pending, catalog, shows, seasons, episodes, users, user_shows, alert_config,
                       driver, script, now, env>>

\* The instants at which the scheduled task is run: Sunday 2024-02-25 at
\* 08:00, 14:00 and 16:00 Denver time, and Monday 2024-02-26 at 14:00.
TaskInstants ==
    {Instant(6, 15, 0, 0, 0, -7), Instant(6, 21, 0, 0, 0, -7),
     Instant(6, 23, 0, 0, 0, -7), Instant(7, 21, 0, 0, 0, -7)}

\* One run of the scheduled task at instant t, not earlier than the run
\* before it.  A run that is aborted makes no fetch; a channel whose SMTP
\* session is never opened cannot fail.
TaskMain ==
    \E t \in TaskInstants, fails \in FailureSets, smtpFail \in SUBSET Channels :
        \E r \in {main(env, t, Db, users, user_shows, watches, fails, smtpFail)} :
           /\ InstantLeq(now, t)
           /\ r.aborted => fails = {}
           /\ \A c \in smtpFail : \E k \in 1..Len(r.sends) : r.sends[k].channel = c
           /\ now' = t
           /\ shows' = r.db.shows
           /\ seasons' = r.db.seasons
           /\ episodes' = r.db.episodes
           /\ last' = [Observation("main", 0, fails) EXCEPT
                          !.ok = r.ok, !.failed = r.failed, !.sends = r.sends,
                          !.aborted = r.aborted, !.window = r.window, !.log = r.log,
                          !.warnings = r.warnings, !.notified = r.notified]
           /\ UNCHANGED <<pending, catalog, users, user_shows, alert_config, driver, script,
                          watches, env>>

\* The instants the window predicate is evaluated at.
WindowSeconds ==
    {0, 6 * SecondsPerHour - 1, 6 * SecondsPerHour, 7 * SecondsPerHour - 1,
     7 * SecondsPerHour, 14 * SecondsPerHour, 15 * SecondsPerHour,
     19 * SecondsPerHour - 1, 19 * SecondsPerHour, 20 * SecondsPerHour - 1,
     20 * SecondsPerHour, 21 * SecondsPerHour, SecondsPerDay - 1}
Instants ==
    [day : 0..MaxDay, sec : WindowSeconds, micro : {0, 500000}, offset : DenverOffsets]

\* is_alert_window_denver(now_utc) evaluated at instant t.
CheckWindow ==
    \E t \in Instants :
        /\ now' = t
        /\ last' = [Observation("is_alert_window_denver", 0, {}) EXCEPT
                       !.window = is_alert_window_denver(t)]
        /\ UNCHANGED <<pending, catalog, shows, seasons, episodes, users, user_shows, alert_config,
                       driver, script, watches, env>>

----------------------------------------------------------------------------
\* SpecWatch: re-syncs of shows whose episodes users have marked watched,
\* while the catalog revises the episode metadata.

InitWatch ==
    /\ catalog = [t \in TmdbIds |-> CatalogEntry(t, DateNames[1], 1, MaxEpisodes, 1)]
    /\ shows = [t \in TmdbIds |-> AddedShowRow(t, DateNames[1])]
    /\ seasons = <<>>
    /\ watches = <<>>
    /\ pending = {}
    /\ now = Epoch
    /\ env = CompleteEnv
    /\ episodes = <<>>
    /\ users = SignedUpUsers
    /\ user_shows = {<<1, t>> : t \in TmdbIds} \cup {<<2, 1>>}
    /\ alert_config \in {c \in AlertConfigCases : ~c.email_enabled /\ ~c.sms_enabled}
    /\ driver = "stores"
    /\ script = NoScript
    /\ last = InitialObservation

NextWatch ==
    \/ SyncAllShows
    \/ CatalogRevise
    \/ LogWatch

SpecWatch == InitWatch /\ [][NextWatch]_vars

----------------------------------------------------------------------------
\* SpecTask: runs of the scheduled task over two shows with one episode
\* each airing on 2024-03-01, in every environment of TaskEnvs.

\* Environments: complete, with the three settings of the SMS gateway
\* address; and with one required value missing.
SmsSettings ==
    {<<NULL, NULL>>, <<"555-123-4567", "Verizon">>, <<"5551234567", "uscellular">>}
TaskEnvs ==
    {[CompleteEnv EXCEPT !["ALERT_SMS_TO"] = v[1], !["ALERT_SMS_CARRIER"] = v[2]] :
        v \in SmsSettings}
    \cup {[CompleteEnv EXCEPT ![n] = NULL, !["ALERT_SMS_TO"] = "555-123-4567",
                              !["ALERT_SMS_CARRIER"] = "Verizon"] :
            n \in {"DEFAULT_API_KEY", "SQLITE_CLOUD_URL", "SMTP_HOST", "SMTP_USER", "SMTP_PASS"}}
    \cup {[CompleteEnv EXCEPT !["SQLITE_CLOUD_URL"] = NULL, !["SQLITE_USER"] = "admin",
                              !["SQLITE_PASSWORD"] = "pw", !["SQLITE_DB"] = "host/db"]}

InitTask ==
    /\ catalog = [t \in TmdbIds |-> CatalogEntry(t, DateNames[1], 1, 1, 1)]
    /\ shows = [t \in TmdbIds |-> AddedShowRow(t, DateNames[1])]
    /\ seasons = <<>>
    /\ watches = <<>>
    /\ pending = {}
    /\ now = Epoch
    /\ env \in TaskEnvs
    /\ episodes = <<>>
    /\ users = SignedUpUsers
    /\ user_shows = {<<1, t>> : t \in TmdbIds} \cup {<<2, 1>>}
    /\ alert_config \in {c \in AlertConfigCases : ~c.email_enabled /\ ~c.sms_enabled}
    /\ driver = "stores"
    /\ script = NoScript
    /\ last = InitialObservation

NextTask ==
    \/ TaskMain
    \/ LogWatch

SpecTask == InitTask /\ [][NextTask]_vars

----------------------------------------------------------------------------
\* SpecWindow: the window predicate on the instants of Instants.

InitWindow ==
    /\ catalog = [t \in TmdbIds |-> CatalogEntry(t, NULL, 0, 0, 1)]
    /\ shows = <<>>
    /\ seasons = <<>>
    /\ watches = <<>>
    /\ pending = {}
    /\ now = Epoch
    /\ env = CompleteEnv
    /\ episodes = <<>>
    /\ users = SignedUpUsers
    /\ user_shows = {}
    /\ alert_config \in {c \in AlertConfigCases : ~c.email_enabled /\ ~c.sms_enabled}
    /\ driver = "stores"
    /\ script = NoScript
    /\ last = InitialObservation

NextWindow == CheckWindow

SpecWindow == InitWindow /\ [][NextWindow]_vars

----------------------------------------------------------------------------
\* Vocabulary of the claims.

\* The step is an execution of operation op.
Did(op) == last'.tick # last.tick /\ last'.op = op
DidCheck == Did("check_and_alert_updates")
DidUserSync == Did("sync_show_updates")
DidSyncAll == Did("sync_all_shows")
DidOperation == DidCheck \/ DidUserSync \/ DidSyncAll

\* The next air date the operation of this step gets for the show of row i:
\* null when the catalog has none or when the fetch fails.
Fetched(i) == CheckNewDate(tmdb_tv_details(shows[i].tmdb_id, last'.fails))
FetchFailed(i) == <<"tv", shows[i].tmdb_id>> \in last'.fails

\* A change notification was attempted for the show of row i in the last
\* operation: the alert gate passed and the channels were consulted.
Attempted(obs, i) == \E a \in obs.attempts : a[1] = i
\* An SMTP submission was made for the show of row i in the last operation.
Dispatched(obs, i) == \E k \in 1..Len(obs.sends) : obs.sends[k].show = i

ShowRows == 1..Len(shows)

----------------------------------------------------------------------------
\* C3 (as claimed): at both call sites a change notification is attempted
\* only for a date that differs from the show's watermark at that moment.
C3_AttemptOnlyIfDiffersFromWatermark ==
    [][(DidCheck \/ DidUserSync) =>
          \A a \in last'.attempts : a[2] # shows[a[1]].alerted_next_air_date]_vars

\* C4: in a run in which the fetched next air date of a show is null, no
\* notification is attempted or sent for the show and its watermark is left
\* as it was.
C4_NullClear ==
    [][DidOperation =>
          \A i \in ShowRows :
              Fetched(i) = NULL =>
                  /\ ~Attempted(last', i)
                  /\ ~Dispatched(last', i)
                  /\ shows'[i].alerted_next_air_date = shows[i].alerted_next_air_date]_vars

\* C4 witness: the check has just cleared the stored date of a show that had
\* been alerted for a concrete date; nothing was attempted.
C4_Witness ==
    /\ last.op = "check_and_alert_updates"
    /\ last.fails = {}
    /\ catalog[1].details["next_episode_to_air"] = NULL
    /\ 1 \in last.updated
    /\ shows[1].next_air_date = NULL
    /\ shows[1].alerted_next_air_date \in Dates
    /\ last.attempts = {}

\* C5 (as claimed): the watermark is written only in a step that dispatched
\* a notification for that show and that date.
C5_WatermarkOnlyOnDispatch ==
    [][DidOperation =>
          \A i \in ShowRows :
              shows'[i].alerted_next_air_date # shows[i].alerted_next_air_date =>
                  \E k \in 1..Len(last'.sends) :
                      /\ last'.sends[k].show = i
                      /\ last'.sends[k].date = shows'[i].alerted_next_air_date]_vars

\* C6 (as claimed): once check_and_alert_updates has made a dispatch attempt
\* for a show's new date, the watermark of the show is that date, whether or
\* not the channels delivered.
C6_AdvanceOnAttempt ==
    [][DidCheck =>
          \A k \in 1..Len(last'.sends) :
              shows'[last'.sends[k].show].alerted_next_air_date = last'.sends[k].date]_vars

\* C7 (as claimed): when the stored next air date of a show is null and an
\* operation fetches a concrete date for it, a notification is attempted,
\* whatever the date.
C7_ReannouncementAlerts ==
    [][(DidCheck \/ DidUserSync) =>
          \A i \in last'.processed :
              (shows[i].next_air_date = NULL /\ Fetched(i) \in Dates) =>
                  Attempted(last', i)]_vars

\* C7 (amended): the same, in check_and_alert_updates only for a date that
\* differs from the watermark.
C7_ReannouncementAlertsUnlessAlerted ==
    [][(DidCheck \/ DidUserSync) =>
          \A i \in last'.processed :
              (/\ shows[i].next_air_date = NULL
               /\ Fetched(i) \in Dates
               /\ DidCheck => Fetched(i) # shows[i].alerted_next_air_date) =>
                  <<i, Fetched(i)>> \in last'.attempts]_vars

\* C7 witness: a show alerted for one date, cleared, and re-announced with
\* another date has just been alerted again by the check.
C7_Witness ==
    /\ last.op = "check_and_alert_updates"
    /\ 1 \in last.updated
    /\ last.before[1][1] = NULL
    /\ last.before[1][2] \in Dates
    /\ shows[1].next_air_date \in Dates \ {last.before[1][2]}
    /\ \E k \in 1..Len(last.sends) :
          /\ last.sends[k].show = 1
          /\ last.sends[k].date = shows[1].next_air_date
    /\ shows[1].alerted_next_air_date = shows[1].next_air_date
    /\ shows[1].status = "Returning Series"
    /\ shows[1].first_air_date # NULL

----------------------------------------------------------------------------
\* C1: over d0 -> d1 -> d1 -> d2 exactly two notification attempts occur, one
\* when d1 is first seen and one when d2 is first seen: at any moment the
\* attempts made are one for each of d1 and d2 that a run has seen, however
\* many runs were made while the date was stationary.
SeenBy(p) == IF script.runs[p] > 0 THEN 1 ELSE 0
EmailChannelOn ==
    alert_config.email_enabled /\ Truthy(Or(alert_config.email_to, ALERT_EMAIL_TO_DEFAULT))
C1_Dedup ==
    script.dates # <<>> =>
        /\ script.attempts = SeenBy(2) + SeenBy(3)
        /\ script.emails = IF EmailChannelOn THEN script.attempts ELSE 0

\* C1 witness: d1 was checked twice and d2 at least once, two attempts were
\* made in all, and the last run delivered one for d2.
C1_Witness ==
    /\ script.dates # <<>>
    /\ script.phase = 3
    /\ script.runs[2] = MaxRuns
    /\ script.runs[3] >= 1
    /\ script.attempts = 2
    /\ \E k \in 1..Len(last.sends) :
          last.sends[k].date = script.dates[3] /\ last.sends[k].delivered

\* C2 (as claimed): a run of check_and_alert_updates that finds stored date
\* and watermark both d and fetches another concrete date d' leaves the
\* stored date d', exactly one attempt for the show, and the watermark d'.
C2_ChangedDateScenario ==
    [][DidCheck =>
          \A i \in last'.processed :
              (/\ shows[i].next_air_date \in Dates
               /\ shows[i].alerted_next_air_date = shows[i].next_air_date
               /\ Fetched(i) \in Dates
               /\ Fetched(i) # shows[i].next_air_date) =>
                  /\ shows'[i].next_air_date = Fetched(i)
                  /\ {a \in last'.attempts : a[1] = i} = {<<i, Fetched(i)>>}
                  /\ shows'[i].alerted_next_air_date = Fetched(i)]_vars

----------------------------------------------------------------------------
\* The show of row i got past upsert_show in the sync of this step.
ShowUpserted(i) ==
    ~upsert_show(Db, tmdb_tv_details(shows[i].tmdb_id, last'.fails)).raised

SeasonStored(tbl, i, n) ==
    \E k \in 1..Len(tbl) : tbl[k].show_id = i /\ tbl[k].season_number = n
EpisodeStored(tbl, i, n, ep) ==
    \E k \in 1..Len(tbl) :
        /\ tbl[k].show_id = i /\ tbl[k].season_number = n
        /\ tbl[k].episode_number = ep["episode_number"]
        /\ tbl[k].name = ep["name"]

\* C8 (as claimed): when the fetch of a show's details fails, the stored row
\* of the show is unchanged by the run, and the scheduled sync logs the
\* failure and still attempts every other show.
C8_FailedFetchLeavesRow ==
    [][DidOperation =>
          \A i \in ShowRows :
              FetchFailed(i) =>
                  /\ shows'[i] = shows[i]
                  /\ DidSyncAll =>
                        /\ \E k \in 1..Len(last'.failed) : last'.failed[k] = shows[i].tmdb_id
                        /\ Len(last'.ok) + Len(last'.failed) = Len(shows)]_vars

\* C9 (as claimed): a season whose fetch does not fail is upserted with its
\* episodes whenever the show itself was upserted, whichever other season of
\* the show failed to be fetched.
C9_SeasonFailureIsolated ==
    [][DidSyncAll =>
          \A i \in ShowRows :
              \A n \in DOMAIN catalog[shows[i].tmdb_id].season :
                  (ShowUpserted(i) /\ <<"season", shows[i].tmdb_id, n>> \notin last'.fails) =>
                      /\ SeasonStored(seasons', i, n)
                      /\ \A j \in DOMAIN catalog[shows[i].tmdb_id].season[n]["episodes"] :
                            EpisodeStored(episodes', i, n,
                                catalog[shows[i].tmdb_id].season[n]["episodes"][j])]_vars

\* C10: a sync that repeats the sync before it, with the same catalog content
\* and the same failing fetches, leaves shows, seasons and episodes exactly
\* as the first left them: same rows, same internal ids, same values.
C10_SyncIdempotent ==
    [][(DidSyncAll /\ last'.repeat) =>
          /\ shows' = shows
          /\ seasons' = seasons
          /\ episodes' = episodes]_vars

\* C10 witness: a second identical sync has just run over a show with
\* seasons and episodes stored.
C10_Witness ==
    /\ last.op = "sync_all_shows"
    /\ last.repeat
    /\ last.fails = {}
    /\ Len(last.ok) >= 1
    /\ Len(seasons) >= 2
    /\ Len(episodes) >= 2

----------------------------------------------------------------------------
\* The rows of episodes that hold episode ep of season n of the show of row i.
EpisodeRows(tbl, i, n, ep) ==
    {k \in 1..Len(tbl) : /\ tbl[k].show_id = i
                         /\ tbl[k].season_number = n
                         /\ tbl[k].episode_number = ep["episode_number"]}

\* C11 (as claimed): after a sync in which every fetch succeeded, each
\* episode the catalog serves has exactly one row for its (show,
\* season_number, episode_number) and every stored field of the row, the
\* external episode id included, is the value of this latest upsert.
C11_EpisodeRowIsLatestUpsert ==
    [][(DidSyncAll /\ last'.fails = {}) =>
          \A i \in ShowRows :
              ShowUpserted(i) =>
                  \A n \in DOMAIN catalog[shows[i].tmdb_id].season :
                      \A j \in DOMAIN catalog[shows[i].tmdb_id].season[n]["episodes"] :
                          LET ep == catalog[shows[i].tmdb_id].season[n]["episodes"][j]
                              rows == EpisodeRows(episodes', i, n, ep)
                          IN /\ Cardinality(rows) = 1
                             /\ \A k \in rows :
                                   /\ episodes'[k].tmdb_episode_id = ep["id"]
                                   /\ episodes'[k].name = ep["name"]
                                   /\ episodes'[k].air_date = ep["air_date"]
                                   /\ episodes'[k].overview = ep["overview"]
                                   /\ episodes'[k].runtime = ep["runtime"]]_vars

----------------------------------------------------------------------------
\* The natural key of an episode row.
EpisodeKey(row) == <<row.show_id, row.season_number, row.episode_number>>

\* C12: a re-sync keeps every existing episode row under its internal id
\* with its natural key, and leaves the watches and user_shows tables as
\* they were; every watch still references the episode it was recorded for.
C12_ResyncFrame ==
    [][DidSyncAll =>
          /\ Len(episodes') >= Len(episodes)
          /\ \A k \in 1..Len(episodes) : EpisodeKey(episodes'[k]) = EpisodeKey(episodes[k])
          /\ watches' = watches
          /\ user_shows' = user_shows
          /\ \A w \in 1..Len(watches) :
                /\ watches'[w].episode_id \in 1..Len(episodes')
                /\ EpisodeKey(episodes'[watches'[w].episode_id])
                      = EpisodeKey(episodes[watches[w].episode_id])]_vars

\* C12 witness: an episode was marked watched, the catalog revised it, and
\* the re-sync has just updated the watched row in place.
C12_Witness ==
    /\ last.op = "sync_all_shows"
    /\ Len(last.ok) >= 1
    /\ Len(watches) >= 1
    /\ watches[1].episode_id \in 1..Len(episodes)
    /\ episodes[watches[1].episode_id].name = "Episode title r2"
    /\ episodes[watches[1].episode_id].tmdb_episode_id
          = "ep-" \o ToString(episodes[watches[1].episode_id].show_id) \o "-1-"
             \o ToString(episodes[watches[1].episode_id].episode_number) \o "-r1"

----------------------------------------------------------------------------
\* The second of the local week of an instant, counted from Monday 00:00
\* Denver time.
LocalSecondOfWeek(t) ==
    (t.day * SecondsPerDay + t.sec + t.offset * SecondsPerHour) % (7 * SecondsPerDay)
SundayAt(h, m, sec) == 6 * SecondsPerDay + h * SecondsPerHour + m * 60 + sec
MondayAt(h, m, sec) == h * SecondsPerHour + m * 60 + sec

\* C13: is_alert_window_denver is true exactly for the instants that are, in
\* Denver time, on a Sunday from 13:00:00 up to and including 23:59:59
\* (23:59:59.000000: the comparison is exact to the microsecond); true on
\* Sunday 14:00, false on Monday 14:00 and on Sunday 08:00.
C13_WindowGating ==
    last.op = "is_alert_window_denver" =>
        LET L == LocalSecondOfWeek(now)
        IN /\ last.window <=>
                 /\ L >= SundayAt(13, 0, 0)
                 /\ \/ L < SundayAt(23, 59, 59)
                    \/ L = SundayAt(23, 59, 59) /\ now.micro = 0
           /\ L = SundayAt(14, 0, 0) => last.window
           /\ L = MondayAt(14, 0, 0) => ~last.window
           /\ L = SundayAt(8, 0, 0) => ~last.window

\* C13 witness: the predicate has just answered true for Sunday 14:00.
C13_Witness ==
    /\ last.op = "is_alert_window_denver"
    /\ LocalSecondOfWeek(now) = SundayAt(14, 0, 0)
    /\ last.window

----------------------------------------------------------------------------
\* The step is a run of the scheduled task.
DidMain == Did("main")

\* C14: a run of the task that gets past the loading of its configuration
\* synchronises every stored show, whatever the window predicate says, and
\* sends (or computes alert content) only when the predicate is true.
C14_SyncAlwaysSendOnlyInWindow ==
    [][(DidMain /\ ~last'.aborted) =>
          /\ Len(last'.ok) + Len(last'.failed) = Len(shows)
          /\ Db' = sync_all_shows(Db, last'.fails).db
          /\ ~is_alert_window_denver(now') =>
                /\ last'.sends = <<>>
                /\ last'.notified = {}
                /\ \A k \in 1..Len(last'.log) : last'.log[k][1] = "sync"]_vars

\* C14 witness: a run on Monday 14:00 has just synced both shows and sent
\* nothing although user 1 has an upcoming episode.
C14_Witness ==
    /\ last.op = "main"
    /\ ~last.aborted
    /\ ~last.window
    /\ LocalSecondOfWeek(now) = MondayAt(14, 0, 0)
    /\ Len(last.ok) = Len(shows)
    /\ Len(episodes) >= 2
    /\ Upcoming(episodes, user_shows, watches, 1,
                denver_today_and_horizon(now, 7).start,
                denver_today_and_horizon(now, 7).end) # {}
    /\ last.sends = <<>>

----------------------------------------------------------------------------
\* The items user u has upcoming in the tables eps at the instant t.
UpcomingAt(eps, u, t) ==
    upcoming_for_user(eps, user_shows, watches, u,
                      denver_today_and_horizon(t, 7).start,
                      denver_today_and_horizon(t, 7).end)

\* C15: in a run of the task the log holds one sync entry per stored show,
\* in enumeration order, before any upcoming or send entry, and the alert
\* content is computed on the tables the synchronisation left: every bundle
\* sent carries the user's upcoming items of the synced tables, and a user
\* with such items and an email address is sent a bundle.
C15_SyncBeforeAlerts ==
    [][(DidMain /\ ~last'.aborted) =>
          /\ Len(last'.log) >= Len(shows)
          /\ \A k \in 1..Len(last'.log) :
                (last'.log[k][1] = "sync") <=> (k <= Len(shows))
          /\ \A k \in 1..Len(shows) : last'.log[k] = <<"sync", shows[k].tmdb_id>>
          /\ \A k \in 1..Len(last'.sends) :
                last'.sends[k].items = UpcomingAt(episodes', last'.sends[k].user, now')
          /\ \A u \in last'.notified :
                (/\ UpcomingAt(episodes', u, now') # <<>>
                 /\ Truthy(users[u].email)
                 /\ ~SmtpClientRaises(env)) =>
                    \E k \in 1..Len(last'.sends) : /\ last'.sends[k].user = u
                                                   /\ last'.sends[k].to = users[u].email]_vars

\* C15 witness: a run in the window has just synced both shows and then
\* sent user 1 a bundle with an episode of each.
C15_Witness ==
    /\ last.op = "main"
    /\ last.window
    /\ Len(last.ok) = Len(shows)
    /\ Len(last.log) > Len(shows)
    /\ \E k \in 1..Len(last.sends) :
          /\ last.sends[k].user = 1
          /\ Len(last.sends[k].items) = 2
          /\ last.sends[k].delivered

----------------------------------------------------------------------------
ItemsOf(send) == {send.items[i] : i \in 1..Len(send.items)}

\* C16 (as claimed): a run of the task in the window that follows another
\* run in the same window, with nothing changed in between, sends no
\* recipient an item the earlier run already delivered to that recipient.
C16_NoDuplicateSends ==
    [][(/\ DidMain
        /\ last.op = "main"
        /\ last.window /\ last'.window
        /\ astimezone(now).day = astimezone(now').day) =>
          \A k \in 1..Len(last'.sends) :
              \A j \in 1..Len(last.sends) :
                  ~(/\ last.sends[j].delivered
                    /\ last'.sends[k].to = last.sends[j].to
                    /\ ItemsOf(last'.sends[k]) \cap ItemsOf(last.sends[j]) # {})]_vars

----------------------------------------------------------------------------
\* C17 (as claimed): the dispatcher of the task makes no send on a channel
\* the user has switched off: a bundle goes to the user's email address only
\* if enable_email is set and to an SMS gateway address only if enable_sms
\* is set, and then to the address formed from the user's own phone number
\* and carrier.
C17_ChannelPreferencesHonoured ==
    [][DidMain =>
          \A k \in 1..Len(last'.sends) :
              LET u == users[last'.sends[k].user]
              IN /\ last'.sends[k].channel = "email" =>
                       u.enable_email /\ last'.sends[k].to = u.email
                 /\ last'.sends[k].channel = "sms" =>
                       /\ u.enable_sms
                       /\ last'.sends[k].to = sms_via_email_address(u.phone, u.carrier)]_vars

----------------------------------------------------------------------------
\* C18 (as claimed): an unrecognised carrier key makes the SMS channel be
\* skipped without an error.  A run of check_and_alert_updates whose
\* configured carrier is no key of the gateways table ends without an
\* exception and processes every show; a run of sync_show_updates for a user
\* whose carrier is no key reports no error for a show it updated.
C18_UnknownCarrierSkipped ==
    [][/\ (/\ DidCheck
           /\ Or(alert_config.sms_carrier, ALERT_SMS_CARRIER_DEFAULT) \notin DOMAIN gateways)
          => (~last'.raised /\ last'.processed = ShowRows)
       /\ (/\ DidUserSync
           /\ users[last'.user].carrier \notin DOMAIN gateways)
          => last'.errors \cap last'.updated = {}]_vars

----------------------------------------------------------------------------
\* C19 (as claimed): a delivery failure on one channel is caught.  A run of
\* check_and_alert_updates or of sync_show_updates in which an SMTP
\* submission failed ends without an exception and has processed every show
\* it was to process.
C19_ChannelFailureIsolated ==
    [][/\ (/\ DidCheck
           /\ \E k \in 1..Len(last'.sends) : ~last'.sends[k].delivered)
          => (~last'.raised /\ last'.processed = ShowRows)
       /\ (/\ DidUserSync
           /\ \E k \in 1..Len(last'.sends) : ~last'.sends[k].delivered)
          => last'.processed = {i \in ShowRows : <<last'.user, i>> \in user_shows}]_vars

----------------------------------------------------------------------------
\* C20 (as claimed): a run of the task whose required configuration is
\* incomplete (the catalog API key, the storage connection info, or the SMTP
\* host, user or password is missing) is aborted before any work: it syncs
\* no show, attempts no send, logs no failed send, and leaves the tables as
\* they were.
C20_MissingConfigIsFatal ==
    [][(/\ DidMain
        /\ \/ RequiredMissing(env, "DEFAULT_API_KEY")
           \/ GetConnRaises(env)
           \/ SmtpClientRaises(env)) =>
          /\ last'.aborted
          /\ last'.ok = <<>> /\ last'.failed = <<>>
          /\ last'.sends = <<>> /\ last'.warnings = {}
          /\ Db' = Db]_vars

----------------------------------------------------------------------------
\* C21 (as claimed): at both sites that compare the fetched next air date
\* with the stored one, equality (both null included) writes nothing and
\* sends nothing for the show, and inequality (a change to null included)
\* stores the fetched date, whether or not a notification goes out.
C21_ChangeClassification ==
    [][(DidCheck \/ DidUserSync) =>
          \A i \in last'.processed :
              /\ Fetched(i) = shows[i].next_air_date =>
                    shows'[i] = shows[i] /\ ~Dispatched(last', i)
              /\ Fetched(i) # shows[i].next_air_date =>
                    shows'[i].next_air_date = Fetched(i)]_vars

----------------------------------------------------------------------------
\* SpecHistory: the watch history edited from the watchlist page by two
\* browser sessions per user.

MaxHistory == 2      \* rows of watches in SpecHistory
Sessions == 1..2
Ratings == {"3", "5"}      \* values of the rating slider (1..5), as text like every stored value
NotesTexts == {"", "great"}

\* The episodes page_watchlist lists to user u: for every season row of a
\* show u tracks, "SELECT ... FROM episodes WHERE season_number = ?" bound to
\* the id of the season row.
WatchlistEpisodes(u) ==
    {e \in 1..Len(episodes) :
        \E k \in 1..Len(seasons) :
            /\ <<u, seasons[k].show_id>> \in user_shows
            /\ episodes[e].season_number = k}

\* watched.get(episode_id) of page_watchlist: user u has a watch row of e.
WatchedEntry(wts, u, e) ==
    \E k \in 1..Len(wts) : wts[k].user_id = u /\ wts[k].episode_id = e

\* log_watch: INSERT INTO watches.
log_watch(wts, u, e, rating, notes) ==
    Append(wts, [user_id |-> u, episode_id |-> e, rating |-> rating, notes |-> notes])

\* "UPDATE watches SET rating=?, notes=? WHERE user_id=? AND episode_id=?"
UpdateWatches(wts, u, e, rating, notes) ==
    [k \in 1..Len(wts) |->
        IF wts[k].user_id = u /\ wts[k].episode_id = e
        THEN [wts[k] EXCEPT !.rating = rating, !.notes = notes]
        ELSE wts[k]]

\* A rerun of page_watchlist in session s of user u, started by a click on
\* "Mark Watched" of episode e: it reads the watched entries of u and finds
\* none for e, so the button is drawn and reports the click.
WatchlistRerun ==
    \E s \in Sessions, u \in DOMAIN users :
        \E e \in WatchlistEpisodes(u) :
            /\ \A p \in pending : ~(p[1] = s /\ p[2] = u)
            /\ ~WatchedEntry(watches, u, e)
            /\ pending' = pending \cup {<<s, u, e>>}
            /\ last' = Idle("page_watchlist")
            /\ UNCHANGED <<catalog, shows, seasons, episodes, users, user_shows,
                           alert_config, driver, script, watches, now, env>>

\* The rerun goes on to log_watch(conn, episode_id).
WatchlistMarkWatched ==
    \E p \in pending :
        /\ Len(watches) < MaxHistory
        /\ watches' = log_watch(watches, p[2], p[3], NULL, NULL)
        /\ pending' = pending \ {p}
        /\ last' = Idle("log_watch")
        /\ UNCHANGED <<catalog, shows, seasons, episodes, users, user_shows,
                       alert_config, driver, script, now, env>>

\* "Update Rating/Notes" and "Save" of page_watchlist on a watched episode.
WatchlistUpdateRating ==
    \E u \in DOMAIN users, rating \in Ratings, notes \in NotesTexts :
        \E e \in WatchlistEpisodes(u) :
            /\ WatchedEntry(watches, u, e)
            /\ watches' = UpdateWatches(watches, u, e, rating, notes)
            /\ last' = Idle("update_rating")
            /\ UNCHANGED <<catalog, shows, seasons, episodes, users, user_shows,
                           alert_config, driver, script, pending, now, env>>

\* The tables after the shows were added and one run of the scheduled sync
\* in which every fetch succeeded.
InitHistory ==
    /\ catalog = [t \in TmdbIds |-> CatalogEntry(t, DateNames[1], 1, 1, 1)]
    /\ driver = "stores"
    /\ \E r \in {sync_all_shows([shows |-> [t \in TmdbIds |-> AddedShowRow(t, DateNames[1])],
                                 seasons |-> <<>>, episodes |-> <<>>], {})} :
          /\ shows = r.db.shows
          /\ seasons = r.db.seasons
          /\ episodes = r.db.episodes
    /\ watches = <<>>
    /\ pending = {}
    /\ now = Epoch
    /\ env = CompleteEnv
    /\ users = SignedUpUsers
    /\ user_shows = {<<1, t>> : t \in TmdbIds} \cup {<<2, 1>>}
    /\ alert_config \in {c \in AlertConfigCases : ~c.email_enabled /\ ~c.sms_enabled}
    /\ script = NoScript
    /\ last = InitialObservation

NextHistory ==
    \/ WatchlistRerun
    \/ WatchlistMarkWatched
    \/ WatchlistUpdateRating

SpecHistory == InitHistory /\ [][NextHistory]_vars

\* Row k is the most recent watch row of its user and episode.
LatestWatch(wts, k) ==
    \A j \in (k+1)..Len(wts) :
        ~(wts[j].user_id = wts[k].user_id /\ wts[j].episode_id = wts[k].episode_id)

\* C22 (as claimed): no step removes a watch row, and a step changes an
\* existing watch row only if it is the most recent row of its user and
\* episode: marking watched inserts, a rating/notes edit touches the latest
\* row at most.
C22_WatchHistoryImmutable ==
    [][/\ Len(watches') >= Len(watches)
       /\ \A k \in 1..Len(watches) :
             watches'[k] # watches[k] => LatestWatch(watches, k)]_vars

----------------------------------------------------------------------------
\* SpecIdentity: shows are added from the search page by two browser
\* sessions per user, removed from watchlists, and synced.

MaxPending == 2      \* handlers of page_add_show between their lookup and their insert

\* The fetches page_add_show makes for show t, and the sets of them that fail.
AddRequests(t) ==
    {<<"tv", t>>} \cup {<<"season", t, n>> : n \in DOMAIN catalog[t].season}
AddFailureSets(t) == {F \in SUBSET AddRequests(t) : Cardinality(F) <= MaxFailures}

\* Mutant: shows.tmdb_id carries no unique index.
InsertShowRowUnchecked(tbl, row) == [tbl |-> Append(tbl, row), raised |-> FALSE]
\* "INSERT INTO shows (tmdb_id, name, status, next_air_date) VALUES (?, ?, ?, ?)":
\* the unique index on tmdb_id (the conflict target of upsert_show) rejects a
\* second row of the same tmdb_id with an exception.
InsertShowRow(tbl, row) ==
    IF RowIndex(tbl, [tmdb_id |-> row.tmdb_id]) # 0
    THEN [tbl |-> tbl, raised |-> TRUE]
    ELSE [tbl |-> Append(tbl, row), raised |-> FALSE]

\* The row page_add_show inserts: the name of the search result,
\* details.get("status", "Unknown") and the next air date, null when absent.
NewShowRow(t, details) ==
    [tmdb_id |-> t, name |-> catalog[t].details["name"],
     status |-> IF "status" \in DOMAIN details THEN details["status"] ELSE "Unknown",
     next_air_date |-> CheckNewDate(details),
     overview |-> NULL, poster_path |-> NULL, first_air_date |-> NULL,
     last_air_date |-> NULL, alerted_next_air_date |-> NULL]

\* "INSERT OR IGNORE INTO episodes (season_number, episode_number, name,
\* air_date, overview)": no show_id is bound (0 stands for its NULL), so no
\* row conflicts with the new one.
RECURSIVE AddEpisodes(_, _, _)
AddEpisodes(tbl, season_num, eps) ==
    IF eps = <<>> THEN tbl
    ELSE AddEpisodes(Append(tbl, [show_id |-> 0, season_number |-> season_num,
                                  episode_number |-> Head(eps)["episode_number"],
                                  tmdb_episode_id |-> NULL,
                                  name |-> Head(eps)["name"],
                                  air_date |-> Get(Head(eps), "air_date"),
                                  overview |-> Get(Head(eps), "overview"),
                                  runtime |-> NULL]),
                     season_num, Tail(eps))

\* The season loop of page_add_show: INSERT OR IGNORE INTO seasons, then the
\* season's episodes; a failed season fetch raises out of the handler.
RECURSIVE AddSeasons(_, _, _, _, _)
AddSeasons(db, t, show_id, ss, fails) ==
    IF ss = <<>> THEN [db |-> db, raised |-> FALSE]
    ELSE LET season_num == Get(Head(ss), "season_number")
             row == [show_id |-> show_id, season_number |-> season_num,
                     name |-> NULL, air_date |-> NULL,
                     episode_count |-> IF "episode_count" \in DOMAIN Head(ss)
                                       THEN Head(ss)["episode_count"] ELSE 0]
             db1 == IF RowIndex(db.seasons, [show_id |-> show_id,
                                             season_number |-> season_num]) # 0
                    THEN db
                    ELSE [db EXCEPT !.seasons = Append(@, row)]
         IN IF SeasonFetchRaises(t, season_num, fails)
            THEN [db |-> db1, raised |-> TRUE]
            ELSE AddSeasons([db1 EXCEPT !.episodes =
                                AddEpisodes(@, season_num,
                                            Get(tmdb_season_details(t, season_num), "episodes"))],
                            t, show_id, Tail(ss), fails)

\* "INSERT OR IGNORE INTO user_shows (user_id, show_id)"
track_show(links, u, show_id) == links \cup {<<u, show_id>>}

\* The branch of page_add_show for a show that had no row when the handler
\* looked it up: insert the row, load seasons and episodes, link the user.
AddNewShow(db, links, u, t, fails) ==
    LET details == tmdb_tv_details(t, fails)
        ins == InsertShowRow(db.shows, NewShowRow(t, details))
    IN IF ins.raised THEN [db |-> db, links |-> links, raised |-> TRUE]
       ELSE LET show_id == RowIndex(ins.tbl, [tmdb_id |-> t])
                r == AddSeasons([db EXCEPT !.shows = ins.tbl], t, show_id,
                                IF "seasons" \in DOMAIN details THEN details["seasons"]
                                ELSE <<>>,
                                fails)
            IN IF r.raised THEN [db |-> r.db, links |-> links, raised |-> TRUE]
               ELSE [db |-> r.db, links |-> track_show(links, u, show_id), raised |-> FALSE]

\* "Add to My Shows" on search result t in session s of user u, the show
\* having a row already: the user is linked to it.
AddShowExisting ==
    \E u \in DOMAIN users, t \in TmdbIds :
        /\ RowIndex(shows, [tmdb_id |-> t]) # 0
        /\ user_shows' = track_show(user_shows, u, RowIndex(shows, [tmdb_id |-> t]))
        /\ last' = Idle("page_add_show")
        /\ UNCHANGED <<catalog, shows, seasons, episodes, users, alert_config, driver,
                       script, watches, pending, now, env>>

\* "Add to My Shows" on search result t, the lookup finding no row (one
\* session per user).
AddShowLookup ==
    \E u \in DOMAIN users, t \in TmdbIds :
        /\ Cardinality(pending) < MaxPending
        /\ \A p \in pending : p[2] # u
        /\ RowIndex(shows, [tmdb_id |-> t]) = 0
        /\ pending' = pending \cup {<<1, u, t>>}
        /\ last' = Idle("page_add_show")
        /\ UNCHANGED <<catalog, shows, seasons, episodes, users, user_shows, alert_config,
                       driver, script, watches, now, env>>

\* The handler goes on after the lookup.
AddShowInsert ==
    \E p \in pending :
        \E fails \in AddFailureSets(p[3]) :
            \E r \in {AddNewShow(Db, user_shows, p[2], p[3], fails)} :
                /\ shows' = r.db.shows
                /\ seasons' = r.db.seasons
                /\ episodes' = r.db.episodes
                /\ user_shows' = r.links
                /\ pending' = pending \ {p}
                /\ last' = Idle("page_add_show")
                /\ UNCHANGED <<catalog, users, alert_config, driver, script, watches,
                               now, env>>

\* "Remove from My Shows" of page_watchlist.
RemoveShow ==
    \E l \in user_shows :
        /\ user_shows' = user_shows \ {l}
        /\ last' = Idle("page_watchlist")
        /\ UNCHANGED <<catalog, shows, seasons, episodes, users, alert_config, driver,
                       script, watches, pending, now, env>>

InitIdentity ==
    /\ catalog = [t \in TmdbIds |-> CatalogEntry(t, DateNames[1], 1, 1, 1)]
    /\ shows = <<>>
    /\ seasons = <<>>
    /\ episodes = <<>>
    /\ watches = <<>>
    /\ pending = {}
    /\ now = Epoch
    /\ env = CompleteEnv
    /\ users = SignedUpUsers
    /\ user_shows = {}
    /\ alert_config \in {c \in AlertConfigCases : ~c.email_enabled /\ ~c.sms_enabled}
    /\ driver = "stores"
    /\ script = NoScript
    /\ last = InitialObservation

NextIdentity ==
    \/ AddShowExisting
    \/ AddShowLookup
    \/ AddShowInsert
    \/ RemoveShow
    \/ SyncAllShows

SpecIdentity == InitIdentity /\ [][NextIdentity]_vars

\* C23: there is at most one shows row per tmdb id, and no step removes a
\* shows row or changes the tmdb id of a row: the internal id (the position
\* of the row) of an external id never changes.
C23_ShowIdentity ==
    /\ [](\A i, j \in 1..Len(shows) : shows[i].tmdb_id = shows[j].tmdb_id => i = j)
    /\ [][/\ Len(shows') >= Len(shows)
          /\ \A i \in 1..Len(shows) : shows'[i].tmdb_id = shows[i].tmdb_id]_vars

\* C23 witness: both shows were added with their seasons and episodes (so
\* each was linked to the user who added it), they were synced, and one of
\* them has since been removed from every watchlist while its row remains.
C23_Witness ==
    /\ Len(shows) = MaxShows
    /\ pending = {}
    /\ Cardinality({k \in 1..Len(episodes) : episodes[k].show_id = 0}) = MaxShows
    /\ \A i \in 1..Len(shows) : \E k \in 1..Len(episodes) : episodes[k].show_id = i
    /\ \E i \in 1..Len(shows) : \A u \in DOMAIN users : <<u, i>> \notin user_shows

----------------------------------------------------------------------------
\* C24 (as claimed): a show whose fetched details carry no next episode has
\* a null next_air_date after upsert_show stored it.
C24_AbsentNextAirDateIsNull ==
    [][DidSyncAll =>
          \A i \in ShowRows :
              (/\ ~FetchFailed(i)
               /\ ShowUpserted(i)
               /\ ~Truthy(Get(catalog[shows[i].tmdb_id].details, "next_episode_to_air")))
                 => shows'[i].next_air_date = NULL]_vars

----------------------------------------------------------------------------
\* C25 (as claimed): a date the catalog reports that differs from the date
\* stored before the batch sync, and for which no alert was made, is
\* classified as changed by the check that follows the sync: the sync's own
\* write of next_air_date does not hide it.
C25_ChangeSurvivesSync ==
    [][((DidCheck \/ DidUserSync) /\ last.op = "sync_all_shows") =>
          \A i \in last'.processed :
              (/\ i \in DOMAIN last.before
               /\ ~FetchFailed(i)
               /\ Fetched(i) \in Dates
               /\ Fetched(i) # last.before[i][1]
               /\ shows[i].alerted_next_air_date # Fetched(i))
                 => Attempted(last', i)]_vars

----------------------------------------------------------------------------
\* The number of entries of the sequence ids that are t.
Outcomes(ids, t) == Cardinality({k \in 1..Len(ids) : ids[k] = t})

\* C26: a run of the task that gets past its configuration logs exactly one
\* outcome, synced or failed, for every stored show, and, when the window is
\* open, its alert stage processes every user, whichever sends failed.
C26_OneOutcomePerItem ==
    [][(DidMain /\ ~last'.aborted) =>
          /\ Len(last'.ok) + Len(last'.failed) = Len(shows)
          /\ \A i \in ShowRows :
                Outcomes(last'.ok \o last'.failed, shows[i].tmdb_id) = 1
          /\ last'.window => last'.notified = DOMAIN users]_vars

\* C26 witness: a run in the window in which one show failed to sync, the
\* other was synced, a send failed and was logged, and every user was
\* processed.
C26_Witness ==
    /\ last.op = "main" /\ ~last.aborted /\ last.window
    /\ last.failed # <<>> /\ last.ok # <<>>
    /\ last.warnings # {}
    /\ last.notified = DOMAIN users

----------------------------------------------------------------------------
\* SpecUpcoming: upcoming_for_user over tables with one episode per show,
\* airing on the first or the second date or on no known date, every set of
\* tracking links and up to two watch rows of either user.

\* The days (UTC day numbers at 21:00, 14:00 in Denver) on which the alert
\* stage computes the upcoming items: the horizon of day 3 ends the day
\* before the first date, that of day 4 on it, that of day 11 starts on it
\* and that of day 12 the day after.
UpcomingDays == {3, 4, 11, 12}
RangeDays == {3, 4, 10, 11, 12, 17, 18, 19}

SyncedEpisode(t, air_date) ==
    [show_id |-> t, season_number |-> 1, episode_number |-> 1,
     tmdb_episode_id |-> EpisodeOf(t, 1, 1, 1).id, name |-> EpisodeOf(t, 1, 1, 1).name,
     air_date |-> air_date, overview |-> EpisodeOf(t, 1, 1, 1).overview,
     runtime |-> EpisodeOf(t, 1, 1, 1).runtime]
WatchRows == [user_id : DOMAIN SignedUpUsers, episode_id : TmdbIds,
              rating : {NULL}, notes : {NULL}]

\* The alert stage of main for user u at instant t: the horizon, then
\* upcoming_for_user.
UpcomingForUser ==
    \E u \in DOMAIN users, d \in UpcomingDays :
        /\ now' = Instant(d, 21, 0, 0, 0, -7)
        /\ last' = [Observation("upcoming_for_user", u, {}) EXCEPT
                       !.log = upcoming_for_user(episodes, user_shows, watches, u,
                                                 denver_today_and_horizon(now', 7).start,
                                                 denver_today_and_horizon(now', 7).end)]
        /\ UNCHANGED <<catalog, shows, seasons, episodes, users, user_shows, alert_config,
                       driver, script, watches, pending, env>>

InitUpcoming ==
    /\ catalog = [t \in TmdbIds |-> CatalogEntry(t, DateNames[1], 1, 1, 1)]
    /\ shows = [t \in TmdbIds |-> AddedShowRow(t, DateNames[1])]
    /\ seasons = <<>>
    /\ episodes \in {[t \in TmdbIds |-> SyncedEpisode(t, air[t])] :
                        air \in [TmdbIds -> {NULL, DateNames[1], DateNames[2]}]}
    /\ watches \in {<<>>} \cup {<<w>> : w \in WatchRows}
                          \cup {<<w1, w2>> : w1 \in WatchRows, w2 \in WatchRows}
    /\ pending = {}
    /\ now = Epoch
    /\ env = CompleteEnv
    /\ users = SignedUpUsers
    /\ user_shows \in SUBSET ((DOMAIN SignedUpUsers) \X TmdbIds)
    /\ alert_config \in {c \in AlertConfigCases : ~c.email_enabled /\ ~c.sms_enabled}
    /\ driver = "stores"
    /\ script = NoScript
    /\ last = InitialObservation

NextUpcoming == UpcomingForUser

SpecUpcoming == InitUpcoming /\ [][NextUpcoming]_vars

\* The watch rows and the tracking links of user u alone.
OwnWatches(u) == LET mine(w) == w.user_id = u IN SelectSeq(watches, mine)
OwnLinks(u) == {l \in user_shows : l[1] = u}

\* C27: for every user and every range of dates, upcoming_for_user returns,
\* once each, exactly the episodes of a show the user tracks that have an
\* air date in the range, bounds included, and no watch by the user; and it
\* returns the same when the watches and the links of every other user are
\* taken away.
C27_UpcomingScopedToUser ==
    \A u \in DOMAIN users, start \in RangeDays, end \in RangeDays :
        LET r == upcoming_for_user(episodes, user_shows, watches, u, start, end)
        IN /\ \A k \in 1..Len(episodes) :
                 (\E j \in 1..Len(r) : r[j] = k) <=>
                     /\ \E l \in user_shows : l[1] = u /\ l[2] = episodes[k].show_id
                     /\ episodes[k].air_date \in {DateNames[i] : i \in 1..Len(DateNames)}
                     /\ start <= DayOfDate(episodes[k].air_date)
                     /\ DayOfDate(episodes[k].air_date) <= end
                     /\ \A w \in 1..Len(watches) :
                           watches[w].episode_id = k => watches[w].user_id # u
           /\ \A i, j \in 1..Len(r) : r[i] = r[j] => i = j
           /\ r = upcoming_for_user(episodes, OwnLinks(u), OwnWatches(u), u, start, end)

\* C27 witness: the alert stage computed a user's items on the day whose
\* horizon ends on the air date; an episode another user watched and tracks
\* is among them, and an episode the user watched is not.
C27_Witness ==
    /\ last.op = "upcoming_for_user"
    /\ astimezone(now).day = 4
    /\ \E k \in 1..Len(episodes) :
          /\ \E j \in 1..Len(last.log) : last.log[j] = k
          /\ episodes[k].air_date = DateNames[1]
          /\ \E w \in 1..Len(watches) :
                watches[w].episode_id = k /\ watches[w].user_id # last.user
    /\ \E k \in 1..Len(episodes) :
          /\ <<last.user, episodes[k].show_id>> \in user_shows
          /\ episodes[k].air_date = DateNames[1]
          /\ \E w \in 1..Len(watches) :
                watches[w].episode_id = k /\ watches[w].user_id = last.user
          /\ \A j \in 1..Len(last.log) : last.log[j] # k

----------------------------------------------------------------------------
\* C28 (as claimed): when sync_show_updates of one user has attempted the
\* notification of a show's new date, the sync_show_updates of another user
\* who tracks the show, run right after it, attempts it too.
C28_UserSyncsIndependent ==
    [][(/\ DidUserSync
        /\ last.op = "sync_show_updates"
        /\ last.user # last'.user) =>
          \A i \in ShowRows :
              (/\ <<last'.user, i>> \in user_shows
               /\ ~FetchFailed(i)
               /\ <<i, Fetched(i)>> \in last.attempts
               /\ \/ users[last'.user].enable_email
                  \/ users[last'.user].enable_sms)
                 => Attempted(last', i)]_vars

----------------------------------------------------------------------------
\* C29 (as claimed): in one run of check_and_alert_updates no two SMTP
\* submissions for the same show go to the same destination address,
\* whatever the channel flags of alert_config are.
C29_OneMessagePerDestination ==
    [][DidCheck =>
          \A j, k \in 1..Len(last'.sends) :
              (/\ last'.sends[j].show = last'.sends[k].show
               /\ last'.sends[j].to = last'.sends[k].to) => j = k]_vars

====
